---- MODULE Spec2Model ----
(***************************************************************************)
(* Model of the CTAP2 data-binding layer of OpenSK                         *)
(* (src/src/ctap/data_formats.rs): the primitive accessors over CBOR       *)
(* nodes, the wire entity codecs, the key-agreement key adapter and the    *)
(* credential source codec.                                                *)
(*                                                                         *)
(* A CBOR node is a pair <<kind, payload>>.  The kinds are the variants of *)
(* cbor::Value / cbor::KeyType: "Unsigned", "Negative", "ByteString",      *)
(* "TextString", "Array", "Map" and "Simple".  A map payload is a function *)
(* from key nodes to nodes, an array payload a sequence of nodes, a byte   *)
(* string a sequence of numbers and a text string a string.                *)
(*                                                                         *)
(* Machine integers are scaled: the unsigned type has IntBits bits and the *)
(* signed type is its two's complement, so that I64_MAX stands for 2^63-1  *)
(* and U64_MAX for 2^64-1.                                                 *)
(***************************************************************************)
EXTENDS Integers, Sequences, FiniteSets, TLC

VARIABLES value, wire, result, op, pc, created_cbor

vars == <<value, wire, result, op, pc, created_cbor>>

(***************************************************************************)
(* Integer widths.                                                         *)
(***************************************************************************)
IntBits == 6

RECURSIVE Pow2(_)
Pow2(n) == IF n = 0 THEN 1 ELSE 2 * Pow2(n - 1)

U64_MAX == Pow2(IntBits) - 1
I64_MAX == Pow2(IntBits - 1) - 1
I64_MIN == 0 - Pow2(IntBits - 1)

\* `u as i64`: reinterpretation of an unsigned word as a signed one.
AsI64(u) == IF u > I64_MAX THEN u - Pow2(IntBits) ELSE u

(***************************************************************************)
(* CBOR nodes and results.                                                 *)
(***************************************************************************)
Unsigned(n) == <<"Unsigned", n>>
Negative(n) == <<"Negative", n>>
ByteString(b) == <<"ByteString", b>>
TextString(s) == <<"TextString", s>>
Array(a) == <<"Array", a>>
Map(m) == <<"Map", m>>
Simple(s) == <<"Simple", s>>

cbor_false == Simple("false")
cbor_true == Simple("true")
cbor_null == Simple("null")
cbor_undefined == Simple("undefined")

cbor_bool(b) == IF b THEN cbor_true ELSE cbor_false

\* cbor_int!: a signed integer becomes an unsigned or a negative node.
cbor_int(i) == IF i >= 0 THEN Unsigned(i) ELSE Negative(i)

Kind(v) == v[1]
Payload(v) == v[2]

EmptyMap == [k \in {} |-> cbor_null]

Ok(v) == <<"Ok", v>>
Err(e) == <<"Err", e>>
IsOk(r) == r[1] = "Ok"
IsErr(r) == r[1] = "Err"

None == <<"None">>
Some(v) == <<"Some", v>>
IsSome(o) == o[1] = "Some"

CTAP2_ERR_MISSING_PARAMETER == "CTAP2_ERR_MISSING_PARAMETER"
CTAP2_ERR_CBOR_UNEXPECTED_TYPE == "CTAP2_ERR_CBOR_UNEXPECTED_TYPE"
CTAP2_ERR_INVALID_CBOR == "CTAP2_ERR_INVALID_CBOR"
CTAP2_ERR_INVALID_OPTION == "CTAP2_ERR_INVALID_OPTION"
CTAP2_ERR_UNSUPPORTED_ALGORITHM == "CTAP2_ERR_UNSUPPORTED_ALGORITHM"
CTAP1_ERR_INVALID_PARAMETER == "CTAP1_ERR_INVALID_PARAMETER"

\* BTreeMap::get on a map payload.
Get(m, k) == IF k \in DOMAIN m THEN Some(m[k]) ELSE None

\* BTreeMap::remove: the map without the key.
Remove(m, k) == [j \in (DOMAIN m) \ {k} |-> m[j]]

(***************************************************************************)
(* Primitive accessors.                                                    *)
(***************************************************************************)
read_unsigned(v) ==
    IF Kind(v) = "Unsigned" THEN Ok(Payload(v))
    ELSE Err(CTAP2_ERR_CBOR_UNEXPECTED_TYPE)

\* A read_integer without the range check of the unsigned arm.
read_integer_unchecked(v) ==
    IF Kind(v) = "Unsigned" THEN Ok(AsI64(Payload(v)))
    ELSE IF Kind(v) = "Negative" THEN Ok(Payload(v))
    ELSE Err(CTAP2_ERR_CBOR_UNEXPECTED_TYPE)

read_integer(v) ==
    IF Kind(v) = "Unsigned"
    THEN IF Payload(v) <= I64_MAX
         THEN Ok(AsI64(Payload(v)))
         ELSE Err(CTAP2_ERR_CBOR_UNEXPECTED_TYPE)
    ELSE IF Kind(v) = "Negative" THEN Ok(Payload(v))
    ELSE Err(CTAP2_ERR_CBOR_UNEXPECTED_TYPE)

read_byte_string(v) ==
    IF Kind(v) = "ByteString" THEN Ok(Payload(v))
    ELSE Err(CTAP2_ERR_CBOR_UNEXPECTED_TYPE)

extract_byte_string(v) ==
    IF Kind(v) = "ByteString" THEN Ok(Payload(v))
    ELSE Err(CTAP2_ERR_CBOR_UNEXPECTED_TYPE)

read_text_string(v) ==
    IF Kind(v) = "TextString" THEN Ok(Payload(v))
    ELSE Err(CTAP2_ERR_CBOR_UNEXPECTED_TYPE)

extract_text_string(v) ==
    IF Kind(v) = "TextString" THEN Ok(Payload(v))
    ELSE Err(CTAP2_ERR_CBOR_UNEXPECTED_TYPE)

read_array(v) ==
    IF Kind(v) = "Array" THEN Ok(Payload(v))
    ELSE Err(CTAP2_ERR_CBOR_UNEXPECTED_TYPE)

read_map(v) ==
    IF Kind(v) = "Map" THEN Ok(Payload(v))
    ELSE Err(CTAP2_ERR_CBOR_UNEXPECTED_TYPE)

extract_map(v) ==
    IF Kind(v) = "Map" THEN Ok(Payload(v))
    ELSE Err(CTAP2_ERR_CBOR_UNEXPECTED_TYPE)

\* A read_bool that treats every non-false node as true.
read_bool_truthy(v) ==
    IF v = cbor_false THEN Ok(FALSE) ELSE Ok(TRUE)

read_bool(v) ==
    IF v = cbor_false THEN Ok(FALSE)
    ELSE IF v = cbor_true THEN Ok(TRUE)
    ELSE Err(CTAP2_ERR_CBOR_UNEXPECTED_TYPE)

\* An ok_or_missing that reports an absent value as a value of the wrong type.
ok_or_missing_as_type_error(value_option) ==
    IF IsSome(value_option) THEN Ok(value_option[2])
    ELSE Err(CTAP2_ERR_CBOR_UNEXPECTED_TYPE)

ok_or_missing(value_option) ==
    IF IsSome(value_option) THEN Ok(value_option[2])
    ELSE Err(CTAP2_ERR_MISSING_PARAMETER)

(***************************************************************************)
(* Nodes handed to the primitive accessors.                                *)
(***************************************************************************)
Fill(n, b) == [i \in 1..n |-> b]

IntegerNodes ==
    {Unsigned(u) : u \in 0..U64_MAX} \cup {Negative(n) : n \in I64_MIN..(0 - 1)}

SampleNodes ==
    { cbor_false, cbor_true, cbor_null, cbor_undefined,
      ByteString(<<>>), ByteString(<<98, 97, 114>>),
      TextString(""), TextString("foo"),
      Array(<<>>), Array(<<cbor_false>>), Array(<<Unsigned(1), TextString("foo")>>),
      Map(EmptyMap), Map((Unsigned(1) :> TextString("foo"))),
      Map((TextString("rk") :> cbor_true)) }

PrimitiveNodes == IntegerNodes \cup SampleNodes

(***************************************************************************)
(* Operations.  A run starts either from an in-memory value to encode      *)
(* (pc = "value") or from a tree received from the transport or read from  *)
(* storage (pc = "wire"); an encoder turns the value into a tree, and an   *)
(* accessor or decoder applied to the tree ends the run (pc = "done").     *)
(* A decoded value may then be encoded again into created_cbor             *)
(* (pc = "reencoded") or handed to an accessor (pc = "accessed").          *)
(***************************************************************************)
Apply(name, r) ==
    /\ pc = "wire"
    /\ result' = r
    /\ op' = name
    /\ pc' = "done"
    /\ UNCHANGED <<value, wire, created_cbor>>

ReadUnsigned == Apply("read_unsigned", read_unsigned(wire))
ReadInteger == Apply("read_integer", read_integer(wire))
ReadByteString == Apply("read_byte_string", read_byte_string(wire))
ReadTextString == Apply("read_text_string", read_text_string(wire))
ReadArray == Apply("read_array", read_array(wire))
ReadMap == Apply("read_map", read_map(wire))
ReadBool == Apply("read_bool", read_bool(wire))

InitWire(nodes) ==
    /\ value = None
    /\ wire \in nodes
    /\ result = None
    /\ op = "none"
    /\ pc = "wire"
    /\ created_cbor = cbor_undefined

InitPrim == InitWire(PrimitiveNodes)

NextPrim ==
    \/ ReadUnsigned
    \/ ReadInteger
    \/ ReadByteString
    \/ ReadTextString
    \/ ReadArray
    \/ ReadMap
    \/ ReadBool

SpecPrim == InitPrim /\ [][NextPrim]_vars

(***************************************************************************)
(* C1: read_integer never widens or wraps across the unsigned/negative     *)
(* boundary.  For an unsigned node u it returns Ok(u) exactly when         *)
(* u <= I64_MAX and CTAP2_ERR_CBOR_UNEXPECTED_TYPE when u > I64_MAX, so    *)
(* the result for an unsigned node is never negative; for a negative node  *)
(* n it returns Ok(n); for every other kind it returns                     *)
(* CTAP2_ERR_CBOR_UNEXPECTED_TYPE.                                         *)
(***************************************************************************)
C1_ReadIntegerExact ==
    op = "read_integer" =>
        /\ Kind(wire) = "Unsigned" =>
              /\ (Payload(wire) <= I64_MAX) <=> (result = Ok(Payload(wire)))
              /\ (Payload(wire) >= I64_MAX + 1) <=>
                     (result = Err(CTAP2_ERR_CBOR_UNEXPECTED_TYPE))
              /\ IsOk(result) => result[2] >= 0
        /\ Kind(wire) = "Negative" => result = Ok(Payload(wire))
        /\ Kind(wire) \notin {"Unsigned", "Negative"} =>
              result = Err(CTAP2_ERR_CBOR_UNEXPECTED_TYPE)

\* read_integer has rejected the first unsigned value above the signed range.
C1_Witness ==
    /\ op = "read_integer"
    /\ wire = Unsigned(I64_MAX + 1)
    /\ result = Err(CTAP2_ERR_CBOR_UNEXPECTED_TYPE)

(***************************************************************************)
(* C8: the primitive accessors are exact and non-coercing.  Each of        *)
(* read_bool, read_unsigned, read_byte_string, read_text_string,           *)
(* read_array and read_map returns Ok with the node's payload unchanged    *)
(* exactly when the node is of the accessor's own kind (an unsigned of any *)
(* value up to U64_MAX for read_unsigned) and returns                      *)
(* CTAP2_ERR_CBOR_UNEXPECTED_TYPE for a node of every other kind.          *)
(***************************************************************************)
OwnKind(name) ==
    CASE name = "read_unsigned" -> "Unsigned"
      [] name = "read_byte_string" -> "ByteString"
      [] name = "read_text_string" -> "TextString"
      [] name = "read_array" -> "Array"
      [] name = "read_map" -> "Map"

C8_AccessorsExact ==
    /\ op \in {"read_unsigned", "read_byte_string", "read_text_string",
               "read_array", "read_map"} =>
          /\ (Kind(wire) = OwnKind(op)) <=> (result = Ok(Payload(wire)))
          /\ (Kind(wire) # OwnKind(op)) <=>
                 (result = Err(CTAP2_ERR_CBOR_UNEXPECTED_TYPE))
    /\ op = "read_bool" =>
          /\ (wire = cbor_true) <=> (result = Ok(TRUE))
          /\ (wire = cbor_false) <=> (result = Ok(FALSE))
          /\ (wire \notin {cbor_true, cbor_false}) <=>
                 (result = Err(CTAP2_ERR_CBOR_UNEXPECTED_TYPE))

\* read_bool has refused to read an integer as a boolean.
C8_Witness ==
    /\ op = "read_bool"
    /\ Kind(wire) = "Unsigned"
    /\ result = Err(CTAP2_ERR_CBOR_UNEXPECTED_TYPE)

(***************************************************************************)
(* Options records.                                                        *)
(***************************************************************************)
\* The maps with keys among `keys` and values among `vals`.
MapsOver(keys, vals) == UNION {[d -> vals] : d \in SUBSET keys}

\* MakeCredentialOptions whose "up" entry is compared before it is type-checked.
MakeCredentialOptions_up_unchecked(v) ==
    LET m == read_map(v) IN
    IF IsErr(m) THEN m ELSE
    LET options_map == m[2]
        rk == IF TextString("rk") \in DOMAIN options_map
              THEN read_bool(options_map[TextString("rk")]) ELSE Ok(FALSE)
    IN
    IF IsErr(rk) THEN rk ELSE
    IF /\ TextString("up") \in DOMAIN options_map
       /\ options_map[TextString("up")] # cbor_true
    THEN Err(CTAP2_ERR_INVALID_OPTION) ELSE
    LET uv == IF TextString("uv") \in DOMAIN options_map
              THEN read_bool(options_map[TextString("uv")]) ELSE Ok(FALSE)
    IN
    IF IsErr(uv) THEN uv ELSE Ok([rk |-> rk[2], uv |-> uv[2]])

MakeCredentialOptions_try_from(v) ==
    LET m == read_map(v) IN
    IF IsErr(m) THEN m ELSE
    LET options_map == m[2]
        rk == IF TextString("rk") \in DOMAIN options_map
              THEN read_bool(options_map[TextString("rk")]) ELSE Ok(FALSE)
    IN
    IF IsErr(rk) THEN rk ELSE
    LET up == IF TextString("up") \in DOMAIN options_map
              THEN read_bool(options_map[TextString("up")]) ELSE Ok(TRUE)
    IN
    IF IsErr(up) THEN up ELSE
    IF ~up[2] THEN Err(CTAP2_ERR_INVALID_OPTION) ELSE
    LET uv == IF TextString("uv") \in DOMAIN options_map
              THEN read_bool(options_map[TextString("uv")]) ELSE Ok(FALSE)
    IN
    IF IsErr(uv) THEN uv ELSE Ok([rk |-> rk[2], uv |-> uv[2]])

\* GetAssertionOptions that refuses only a resident-key option that is set.
GetAssertionOptions_rk_false_allowed(v) ==
    LET m == read_map(v) IN
    IF IsErr(m) THEN m ELSE
    LET options_map == m[2]
        rk == IF TextString("rk") \in DOMAIN options_map
              THEN read_bool(options_map[TextString("rk")]) ELSE Ok(FALSE)
    IN
    IF IsErr(rk) THEN rk ELSE
    IF rk[2] THEN Err(CTAP2_ERR_INVALID_OPTION) ELSE
    LET up == IF TextString("up") \in DOMAIN options_map
              THEN read_bool(options_map[TextString("up")]) ELSE Ok(TRUE)
    IN
    IF IsErr(up) THEN up ELSE
    LET uv == IF TextString("uv") \in DOMAIN options_map
              THEN read_bool(options_map[TextString("uv")]) ELSE Ok(FALSE)
    IN
    IF IsErr(uv) THEN uv ELSE Ok([up |-> up[2], uv |-> uv[2]])

GetAssertionOptions_try_from(v) ==
    LET m == read_map(v) IN
    IF IsErr(m) THEN m ELSE
    LET options_map == m[2] IN
    IF TextString("rk") \in DOMAIN options_map
    THEN LET probe == read_bool(options_map[TextString("rk")]) IN
         IF IsErr(probe) THEN probe ELSE Err(CTAP2_ERR_INVALID_OPTION)
    ELSE
    LET up == IF TextString("up") \in DOMAIN options_map
              THEN read_bool(options_map[TextString("up")]) ELSE Ok(TRUE)
    IN
    IF IsErr(up) THEN up ELSE
    LET uv == IF TextString("uv") \in DOMAIN options_map
              THEN read_bool(options_map[TextString("uv")]) ELSE Ok(FALSE)
    IN
    IF IsErr(uv) THEN uv ELSE Ok([up |-> up[2], uv |-> uv[2]])

OptionKeys == {TextString("rk"), TextString("up"), TextString("uv")}

OptionEntries ==
    {cbor_false, cbor_true, cbor_null, Unsigned(1), TextString("yes")}

OptionsNodes ==
    {Map(m) : m \in MapsOver(OptionKeys, OptionEntries)}
        \cup {cbor_true, Unsigned(1), Array(<<cbor_true>>), TextString("rk")}

DecodeMakeCredentialOptions ==
    Apply("MakeCredentialOptions", MakeCredentialOptions_try_from(wire))

DecodeGetAssertionOptions ==
    Apply("GetAssertionOptions", GetAssertionOptions_try_from(wire))

InitOptions == InitWire(OptionsNodes)

NextOptions ==
    \/ DecodeMakeCredentialOptions
    \/ DecodeGetAssertionOptions

SpecOptions == InitOptions /\ [][NextOptions]_vars

IsBool(v) == v \in {cbor_false, cbor_true}

\* The boolean under `key`, or `default` when the key is absent.
BoolOr(m, key, default) ==
    IF key \in DOMAIN m THEN m[key] = cbor_true ELSE default

(***************************************************************************)
(* C2: GetAssertionOptions decode never succeeds when the options map      *)
(* contains the key "rk": a non-boolean "rk" gives                         *)
(* CTAP2_ERR_CBOR_UNEXPECTED_TYPE and a boolean "rk" (true or false) gives *)
(* CTAP2_ERR_INVALID_OPTION, whatever "up" and "uv" hold; when "rk" is     *)
(* absent, decode yields up = the "up" boolean or true if absent and       *)
(* uv = the "uv" boolean or false if absent.                               *)
(***************************************************************************)
C2_GetAssertionRk ==
    (op = "GetAssertionOptions" /\ Kind(wire) = "Map") =>
        LET m == Payload(wire)
            rk == TextString("rk")
            up == TextString("up")
            uv == TextString("uv")
        IN
        /\ rk \in DOMAIN m =>
              /\ IsErr(result)
              /\ ~IsBool(m[rk]) => result = Err(CTAP2_ERR_CBOR_UNEXPECTED_TYPE)
              /\ IsBool(m[rk]) => result = Err(CTAP2_ERR_INVALID_OPTION)
        /\ ( /\ rk \notin DOMAIN m
             /\ up \in DOMAIN m => IsBool(m[up])
             /\ uv \in DOMAIN m => IsBool(m[uv]) ) =>
              result = Ok([up |-> BoolOr(m, up, TRUE), uv |-> BoolOr(m, uv, FALSE)])

\* Decoding {"rk": false, "up": "yes"} has failed with the option error.
C2_Witness ==
    /\ op = "GetAssertionOptions"
    /\ wire = Map((TextString("rk") :> cbor_false) @@ (TextString("up") :> TextString("yes")))
    /\ result = Err(CTAP2_ERR_INVALID_OPTION)

(***************************************************************************)
(* C3: MakeCredentialOptions decode, for a map whose "rk" entry is absent  *)
(* or boolean: a non-boolean "up" gives CTAP2_ERR_CBOR_UNEXPECTED_TYPE     *)
(* (never CTAP2_ERR_INVALID_OPTION); "up" = false gives                    *)
(* CTAP2_ERR_INVALID_OPTION whatever "uv" holds; with "up" absent or true  *)
(* decoding continues, and with a boolean or absent "uv" the result is Ok  *)
(* with rk and uv equal to their entries, or false when absent.            *)
(***************************************************************************)
C3_MakeCredentialUp ==
    (op = "MakeCredentialOptions" /\ Kind(wire) = "Map") =>
        LET m == Payload(wire)
            rk == TextString("rk")
            up == TextString("up")
            uv == TextString("uv")
        IN
        (rk \in DOMAIN m => IsBool(m[rk])) =>
            /\ (up \in DOMAIN m /\ ~IsBool(m[up])) =>
                  result = Err(CTAP2_ERR_CBOR_UNEXPECTED_TYPE)
            /\ (up \in DOMAIN m /\ m[up] = cbor_false) =>
                  result = Err(CTAP2_ERR_INVALID_OPTION)
            /\ ( /\ up \in DOMAIN m => m[up] = cbor_true
                 /\ uv \in DOMAIN m => IsBool(m[uv]) ) =>
                  result = Ok([rk |-> BoolOr(m, rk, FALSE), uv |-> BoolOr(m, uv, FALSE)])

\* Decoding {"up": "yes"} has failed with the type error.
C3_Witness ==
    /\ op = "MakeCredentialOptions"
    /\ wire = Map((TextString("up") :> TextString("yes")))
    /\ result = Err(CTAP2_ERR_CBOR_UNEXPECTED_TYPE)

(***************************************************************************)
(* Credential source codec.                                                *)
(***************************************************************************)
NBYTES == 32

\* cbor_map_options!: the map of the entries whose value is present.
cbor_map_options(entries) ==
    LET present == {i \in DOMAIN entries : IsSome(entries[i][2])}
        keys == {entries[i][1] : i \in present}
    IN Map([k \in keys |->
              LET i == CHOOSE j \in present : entries[j][1] = k IN entries[i][2][2]])

\* The order n of the P-256 group, big-endian.
P256_ORDER ==
    << 255, 255, 255, 255,   0,   0,   0,   0, 255, 255, 255, 255, 255, 255, 255, 255,
       188, 230, 250, 173, 167,  23, 158, 132, 243, 185, 202, 194, 252,  99,  37,  81 >>

\* a < b for big-endian byte strings of the same length.
BytesLess(a, b) ==
    \E i \in DOMAIN a :
        /\ a[i] < b[i]
        /\ \A j \in 1..(i - 1) : a[j] = b[j]

\* ecdsa::SecKey::from_bytes: a scalar k with 0 < k < n, or nothing.
SecKey_from_bytes(bytes) ==
    IF (\E i \in DOMAIN bytes : bytes[i] # 0) /\ BytesLess(bytes, P256_ORDER)
    THEN Some(<<"SecKey", bytes>>)
    ELSE None

\* ecdsa::SecKey::to_bytes: the scalar as 32 big-endian bytes.
SecKey_to_bytes(sk) == sk[2]

\* array_ref!(bytes, 0, n)
array_ref(bytes, n) == SubSeq(bytes, 1, n)

CredentialId == Unsigned(0)
PrivateKey == Unsigned(1)
RpId == Unsigned(2)
UserHandle == Unsigned(3)
OtherUi == Unsigned(4)
CredRandom == Unsigned(5)

SourceTags == {CredentialId, PrivateKey, RpId, UserHandle, OtherUi, CredRandom}

\* An encoder that also stores an empty placeholder for absent optionals.
PublicKeyCredentialSource_into_placeholders(credential) ==
    cbor_map_options(<<
        <<CredentialId, Some(ByteString(credential.credential_id))>>,
        <<PrivateKey, Some(ByteString(SecKey_to_bytes(credential.private_key)))>>,
        <<RpId, Some(TextString(credential.rp_id))>>,
        <<UserHandle, Some(ByteString(credential.user_handle))>>,
        <<OtherUi, IF IsSome(credential.other_ui)
                   THEN Some(TextString(credential.other_ui[2]))
                   ELSE Some(TextString(""))>>,
        <<CredRandom, IF IsSome(credential.cred_random)
                      THEN Some(ByteString(credential.cred_random[2]))
                      ELSE Some(ByteString(<<>>))>> >>)

PublicKeyCredentialSource_into(credential) ==
    cbor_map_options(<<
        <<CredentialId, Some(ByteString(credential.credential_id))>>,
        <<PrivateKey, Some(ByteString(SecKey_to_bytes(credential.private_key)))>>,
        <<RpId, Some(TextString(credential.rp_id))>>,
        <<UserHandle, Some(ByteString(credential.user_handle))>>,
        <<OtherUi, IF IsSome(credential.other_ui)
                   THEN Some(TextString(credential.other_ui[2])) ELSE None>>,
        <<CredRandom, IF IsSome(credential.cred_random)
                      THEN Some(ByteString(credential.cred_random[2])) ELSE None>> >>)

\* Option<Result<T, E>>::transpose: an absent field is Ok(None).
transpose(o) ==
    IF IsSome(o)
    THEN IF IsErr(o[2]) THEN o[2] ELSE Ok(Some(o[2][2]))
    ELSE Ok(None)

\* A key reconstruction without the length check: a short string is
\* zero-filled and a long one truncated.
private_key_unchecked_length(key_bytes) ==
    LET padded == key_bytes \o Fill(NBYTES, 0)
        private_key == SecKey_from_bytes(array_ref(padded, NBYTES))
    IN IF IsSome(private_key) THEN Ok(private_key[2])
       ELSE Err(CTAP2_ERR_INVALID_CBOR)

\* The private key from the stored byte string.
private_key_from_stored(key_bytes) ==
    IF Len(key_bytes) # NBYTES THEN Err(CTAP2_ERR_INVALID_CBOR) ELSE
    LET private_key == SecKey_from_bytes(array_ref(key_bytes, NBYTES)) IN
    IF IsSome(private_key) THEN Ok(private_key[2])
    ELSE Err(CTAP2_ERR_INVALID_CBOR)

\* The fields of a credential source, removed from the map one by one.
SourceFields(map0) ==
    LET id_node == ok_or_missing(Get(map0, CredentialId))
        credential_id == IF IsErr(id_node) THEN id_node ELSE extract_byte_string(id_node[2])
        map1 == Remove(map0, CredentialId)
    IN
    IF IsErr(credential_id) THEN credential_id ELSE
    LET key_node == ok_or_missing(Get(map1, PrivateKey))
        key_bytes == IF IsErr(key_node) THEN key_node ELSE extract_byte_string(key_node[2])
        map2 == Remove(map1, PrivateKey)
    IN
    IF IsErr(key_bytes) THEN key_bytes ELSE
    LET private_key == private_key_from_stored(key_bytes[2]) IN
    IF IsErr(private_key) THEN private_key ELSE
    LET rp_node == ok_or_missing(Get(map2, RpId))
        rp_id == IF IsErr(rp_node) THEN rp_node ELSE extract_text_string(rp_node[2])
        map3 == Remove(map2, RpId)
    IN
    IF IsErr(rp_id) THEN rp_id ELSE
    LET user_node == ok_or_missing(Get(map3, UserHandle))
        user_handle == IF IsErr(user_node) THEN user_node
                       ELSE extract_byte_string(user_node[2])
        map4 == Remove(map3, UserHandle)
    IN
    IF IsErr(user_handle) THEN user_handle ELSE
    LET other_ui == transpose(IF OtherUi \in DOMAIN map4
                              THEN Some(extract_text_string(map4[OtherUi])) ELSE None)
        map5 == Remove(map4, OtherUi)
    IN
    IF IsErr(other_ui) THEN other_ui ELSE
    LET cred_random == transpose(IF CredRandom \in DOMAIN map5
                                 THEN Some(extract_byte_string(map5[CredRandom]))
                                 ELSE None)
    IN
    IF IsErr(cred_random) THEN cred_random ELSE
    Ok([ key_type |-> "PublicKey",
         credential_id |-> credential_id[2],
         private_key |-> private_key[2],
         rp_id |-> rp_id[2],
         user_handle |-> user_handle[2],
         other_ui |-> other_ui[2],
         cred_random |-> cred_random[2] ])

\* A decoder that refuses a map with a tag it does not recognize.
PublicKeyCredentialSource_try_from_strict(cbor_value) ==
    LET m == extract_map(cbor_value) IN
    IF IsErr(m) THEN m
    ELSE IF ~(DOMAIN m[2] \subseteq SourceTags) THEN Err(CTAP2_ERR_INVALID_CBOR)
    ELSE SourceFields(m[2])

\* A decoder that takes the presence of a tag 6 for a stored type.
PublicKeyCredentialSource_try_from_typed(cbor_value) ==
    LET m == extract_map(cbor_value) IN
    IF IsErr(m) THEN m ELSE
    LET r == SourceFields(m[2]) IN
    IF IsErr(r) THEN r
    ELSE IF Unsigned(6) \in DOMAIN m[2] THEN Ok([r[2] EXCEPT !.key_type = "Unknown"])
    ELSE r

PublicKeyCredentialSource_try_from(cbor_value) ==
    LET m == extract_map(cbor_value) IN
    IF IsErr(m) THEN m ELSE SourceFields(m[2])

(***************************************************************************)
(* Credential sources held in memory, and records found in storage.        *)
(***************************************************************************)
Options(S) == {None} \cup {Some(x) : x \in S}

\* The order n less one: the largest valid scalar.
P256_ORDER_MINUS_ONE == [P256_ORDER EXCEPT ![NBYTES] = P256_ORDER[NBYTES] - 1]

ValidScalars == {Fill(NBYTES, 1), P256_ORDER_MINUS_ONE}

CredentialSources ==
    [ key_type : {"PublicKey", "Unknown"},
      credential_id : {Fill(NBYTES, 29), <<>>},
      private_key : {<<"SecKey", k>> : k \in ValidScalars},
      rp_id : {"example.com"},
      user_handle : {<<>>, <<102, 111, 111>>},
      other_ui : Options({"other"}),
      cred_random : Options({Fill(NBYTES, 0)}) ]

StoredKeys ==
    { ByteString(Fill(NBYTES - 1, 1)), ByteString(Fill(NBYTES + 1, 1)),
      ByteString(<<>>),
      ByteString(Fill(NBYTES, 0)), ByteString(Fill(NBYTES, 255)),
      ByteString(P256_ORDER),
      TextString("key") }
        \cup {ByteString(k) : k \in ValidScalars}

StoredNodes ==
    { cbor_map_options(<<
          <<CredentialId, t0>>, <<PrivateKey, t1>>, <<RpId, t2>>,
          <<UserHandle, t3>>, <<OtherUi, t4>>, <<CredRandom, t5>> >>) :
        t0 \in Options({ByteString(Fill(NBYTES, 29)), TextString("id")}),
        t1 \in Options(StoredKeys),
        t2 \in Options({TextString("example.com"), ByteString(<<1>>)}),
        t3 \in Options({ByteString(<<>>), Unsigned(3)}),
        t4 \in Options({TextString("other"), ByteString(<<1>>)}),
        t5 \in Options({ByteString(Fill(NBYTES, 0)), cbor_true}) }
        \cup {cbor_false, Array(<<cbor_false>>), Array(<<ByteString(<<102, 111, 111>>)>>)}

\* Keys that are none of the tags 0..5, and values stored under them.
UnknownTags ==
    {Unsigned(6), Unsigned(U64_MAX), Negative(0 - 1), TextString("rp_id"), ByteString(<<1>>)}

UnknownValues ==
    {cbor_null, Unsigned(1), ByteString(Fill(NBYTES, 1)), Map(EmptyMap)}

InitValue(kind, values) ==
    /\ value \in {<<kind, x>> : x \in values}
    /\ wire = cbor_undefined
    /\ result = None
    /\ op = "none"
    /\ pc = "value"
    /\ created_cbor = cbor_undefined

\* A credential is written to storage.
EncodeCredentialSource ==
    /\ pc = "value"
    /\ value[1] = "PublicKeyCredentialSource"
    /\ wire' = PublicKeyCredentialSource_into(value[2])
    /\ op' = "PublicKeyCredentialSource::into"
    /\ pc' = "wire"
    /\ UNCHANGED <<value, result, created_cbor>>

\* The stored map carries one more entry, under a tag that is not in use.
InjectUnknownTag ==
    /\ pc = "wire"
    /\ op = "PublicKeyCredentialSource::into"
    /\ \E k \in UnknownTags, v \in UnknownValues :
          wire' = Map((k :> v) @@ Payload(wire))
    /\ op' = "inject"
    /\ UNCHANGED <<value, result, pc, created_cbor>>

DecodeCredentialSource ==
    Apply("PublicKeyCredentialSource::try_from", PublicKeyCredentialSource_try_from(wire))

InitSource ==
    \/ InitWire(StoredNodes)
    \/ InitValue("PublicKeyCredentialSource", CredentialSources)

NextSource ==
    \/ EncodeCredentialSource
    \/ InjectUnknownTag
    \/ DecodeCredentialSource

SpecSource == InitSource /\ [][NextSource]_vars

\* The last operation decoded what the encoder wrote for the credential in memory.
DecodedOwnEncoding ==
    /\ op = "PublicKeyCredentialSource::try_from"
    /\ value # None
    /\ wire = PublicKeyCredentialSource_into(value[2])

\* The last operation decoded the encoding with an unknown tag added.
DecodedInjected ==
    /\ op = "PublicKeyCredentialSource::try_from"
    /\ value # None
    /\ wire # PublicKeyCredentialSource_into(value[2])

(***************************************************************************)
(* C4 as stated: for every credential source x, decoding the persistent    *)
(* encoding of x succeeds and returns a record equal to x in every field,  *)
(* its type field included.                                                *)
(***************************************************************************)
C4_RoundTripAllFields ==
    DecodedOwnEncoding => result = Ok(value[2])

(***************************************************************************)
(* C4 amended: for every credential source x (optionals present or         *)
(* absent), decoding the persistent encoding of x succeeds and returns x   *)
(* with key_type replaced by PublicKey; the record equals x in every       *)
(* field, type included, exactly when the key_type of x is PublicKey.      *)
(***************************************************************************)
C4_RoundTripButType ==
    DecodedOwnEncoding =>
        /\ result = Ok([value[2] EXCEPT !.key_type = "PublicKey"])
        /\ (result = Ok(value[2])) <=> (value[2].key_type = "PublicKey")

\* A credential of type PublicKey with both optionals set has been written and read back.
C4_Witness ==
    /\ DecodedOwnEncoding
    /\ value[2].key_type = "PublicKey"
    /\ IsSome(value[2].other_ui)
    /\ IsSome(value[2].cred_random)
    /\ result = Ok(value[2])

(***************************************************************************)
(* C5: credential source decode never produces a zero-filled or truncated  *)
(* key.  Decoding is fail-fast, so the private key is examined when the    *)
(* input is a map with a byte string under tag 0; then a byte string       *)
(* under tag 1 whose length is not 32, or that has length 32 and is not a  *)
(* valid private scalar, makes decode fail with CTAP2_ERR_INVALID_CBOR.    *)
(* No such string ever decodes, whatever the other tags hold, and on       *)
(* success the decoded private key is exactly the scalar given by the 32   *)
(* stored bytes.                                                           *)
(***************************************************************************)
C5_PrivateKeyExact ==
    (op = "PublicKeyCredentialSource::try_from" /\ Kind(wire) = "Map") =>
        LET m == Payload(wire)
            stored == m[PrivateKey]
            bad == \/ Len(Payload(stored)) # NBYTES
                   \/ ~IsSome(SecKey_from_bytes(Payload(stored)))
        IN
        /\ ( /\ CredentialId \in DOMAIN m
             /\ Kind(m[CredentialId]) = "ByteString"
             /\ PrivateKey \in DOMAIN m
             /\ Kind(stored) = "ByteString"
             /\ bad ) => result = Err(CTAP2_ERR_INVALID_CBOR)
        /\ IsOk(result) =>
              /\ PrivateKey \in DOMAIN m
              /\ Kind(stored) = "ByteString"
              /\ Len(Payload(stored)) = NBYTES
              /\ SecKey_to_bytes(result[2].private_key) = Payload(stored)
              /\ SecKey_from_bytes(Payload(stored)) = Some(result[2].private_key)

\* A stored key of 33 bytes has been refused.
C5_Witness ==
    /\ op = "PublicKeyCredentialSource::try_from"
    /\ Kind(wire) = "Map"
    /\ PrivateKey \in DOMAIN Payload(wire)
    /\ Payload(wire)[PrivateKey] = ByteString(Fill(NBYTES + 1, 1))
    /\ result = Err(CTAP2_ERR_INVALID_CBOR)

(***************************************************************************)
(* C6: forward-drop.  For every credential source x and every key k that   *)
(* is not one of the tags 0..5, decoding the encoding of x with an entry   *)
(* added under k (with any value) succeeds and returns the same record as  *)
(* decoding the unmodified encoding: an unrecognized tag never causes a    *)
(* failure and never changes a decoded field.                              *)
(***************************************************************************)
C6_ForwardDrop ==
    DecodedInjected =>
        /\ IsOk(result)
        /\ result = PublicKeyCredentialSource_try_from(PublicKeyCredentialSource_into(value[2]))
        /\ \E k \in (DOMAIN Payload(wire)) \ SourceTags :
              Remove(Payload(wire), k) = Payload(PublicKeyCredentialSource_into(value[2]))

\* An encoding with an added text-keyed entry has been decoded.
C6_Witness ==
    /\ DecodedInjected
    /\ TextString("rp_id") \in DOMAIN Payload(wire)
    /\ IsOk(result)

(***************************************************************************)
(* Key-agreement key adapter.                                              *)
(***************************************************************************)
ECDH_ALGORITHM == 0 - 25
ES256_ALGORITHM == 0 - 7
EC2_KEY_TYPE == 2
P_256_CURVE == 1

\* The base point G of P-256 and its double 2G, as big-endian coordinates.
P256_Gx ==
    << 107,  23, 209, 242, 225,  44,  66,  71, 248, 188, 230, 229,  99, 164,  64, 242,
       119,   3, 125, 129,  45, 235,  51, 160, 244, 161,  57,  69, 216, 152, 194, 150 >>

P256_Gy ==
    <<  79, 227,  66, 226, 254,  26, 127, 155, 142, 231, 235,  74, 124,  15, 158,  22,
        43, 206,  51,  87, 107,  49,  94, 206, 203, 182,  64, 104,  55, 191,  81, 245 >>

P256_2Gx ==
    << 124, 242, 123,  24, 141,   3,  79, 126, 138,  82,  56,   3,   4, 181,  26, 195,
       192, 137, 105, 226, 119, 242,  27,  53, 166,  11,  72, 252,  71, 102, 153, 120 >>

P256_2Gy ==
    <<   7, 119,  85,  16, 219, 142, 208,  64,  41,  61, 154, 198, 159, 116,  48, 219,
       186, 125, 173, 230,  60, 233, 130,  41, 158,   4, 183, 157,  34, 120, 115, 209 >>

\* The points of the curve among the coordinates the model uses.
P256Points == {<<P256_Gx, P256_Gy>>, <<P256_2Gx, P256_2Gy>>}

\* ecdh::PubKey::from_coordinates: the point, if it is on the curve.
PubKey_from_coordinates(x, y) ==
    IF <<x, y>> \in P256Points THEN Some(<<"PubKey", x, y>>) ELSE None

\* ecdh::PubKey::to_coordinates
PubKey_to_coordinates(pk) == [x |-> pk[2], y |-> pk[3]]

CoseKey(map) == <<"CoseKey", map>>

\* An encoder that writes the coordinates under each other's label.
CoseKey_from_swapped(pk) ==
    LET c == PubKey_to_coordinates(pk)
        cose_cbor_value == cbor_map_options(<<
            <<cbor_int(1), Some(cbor_int(EC2_KEY_TYPE))>>,
            <<cbor_int(3), Some(cbor_int(ECDH_ALGORITHM))>>,
            <<cbor_int(0 - 1), Some(cbor_int(P_256_CURVE))>>,
            <<cbor_int(0 - 2), Some(ByteString(c.y))>>,
            <<cbor_int(0 - 3), Some(ByteString(c.x))>> >>)
    IN CoseKey(Payload(cose_cbor_value))

CoseKey_from(pk) ==
    LET c == PubKey_to_coordinates(pk)
        cose_cbor_value == cbor_map_options(<<
            <<cbor_int(1), Some(cbor_int(EC2_KEY_TYPE))>>,
            <<cbor_int(3), Some(cbor_int(ECDH_ALGORITHM))>>,
            <<cbor_int(0 - 1), Some(cbor_int(P_256_CURVE))>>,
            <<cbor_int(0 - 2), Some(ByteString(c.x))>>,
            <<cbor_int(0 - 3), Some(ByteString(c.y))>> >>)
    IN CoseKey(Payload(cose_cbor_value))

\* read_integer(ok_or_missing(map.get(label))?)
IntegerAt(map, label) ==
    LET node == ok_or_missing(Get(map, cbor_int(label))) IN
    IF IsErr(node) THEN node ELSE read_integer(node[2])

\* read_byte_string(ok_or_missing(map.get(label))?)
BytesAt(map, label) ==
    LET node == ok_or_missing(Get(map, cbor_int(label))) IN
    IF IsErr(node) THEN node ELSE read_byte_string(node[2])

\* The coordinates of a key whose type, algorithm and curve were accepted.
PubKey_coordinates(map) ==
    LET x_bytes == BytesAt(map, 0 - 2) IN
    IF IsErr(x_bytes) THEN x_bytes ELSE
    IF Len(x_bytes[2]) # NBYTES THEN Err(CTAP1_ERR_INVALID_PARAMETER) ELSE
    LET y_bytes == BytesAt(map, 0 - 3) IN
    IF IsErr(y_bytes) THEN y_bytes ELSE
    IF Len(y_bytes[2]) # NBYTES THEN Err(CTAP1_ERR_INVALID_PARAMETER) ELSE
    LET pk == PubKey_from_coordinates(array_ref(x_bytes[2], NBYTES),
                                      array_ref(y_bytes[2], NBYTES))
    IN IF IsSome(pk) THEN Ok(pk[2]) ELSE Err(CTAP1_ERR_INVALID_PARAMETER)

\* A decoder that accepts the canonical algorithm code only.
PubKey_try_from_canonical_only(cose_key) ==
    LET map == cose_key[2]
        key_type == IntegerAt(map, 1)
    IN
    IF IsErr(key_type) THEN key_type ELSE
    IF key_type[2] # EC2_KEY_TYPE THEN Err(CTAP2_ERR_UNSUPPORTED_ALGORITHM) ELSE
    LET algorithm == IntegerAt(map, 3) IN
    IF IsErr(algorithm) THEN algorithm ELSE
    IF algorithm[2] # ECDH_ALGORITHM
    THEN Err(CTAP2_ERR_UNSUPPORTED_ALGORITHM) ELSE
    LET curve == IntegerAt(map, 0 - 1) IN
    IF IsErr(curve) THEN curve ELSE
    IF curve[2] # P_256_CURVE THEN Err(CTAP2_ERR_UNSUPPORTED_ALGORITHM) ELSE
    PubKey_coordinates(map)

\* A decoder that examines the algorithm before the key type.
PubKey_try_from_algorithm_first(cose_key) ==
    LET map == cose_key[2]
        algorithm == IntegerAt(map, 3)
    IN
    IF IsErr(algorithm) THEN algorithm ELSE
    IF algorithm[2] # ECDH_ALGORITHM /\ algorithm[2] # ES256_ALGORITHM
    THEN Err(CTAP2_ERR_UNSUPPORTED_ALGORITHM) ELSE
    LET key_type == IntegerAt(map, 1) IN
    IF IsErr(key_type) THEN key_type ELSE
    IF key_type[2] # EC2_KEY_TYPE THEN Err(CTAP2_ERR_UNSUPPORTED_ALGORITHM) ELSE
    LET curve == IntegerAt(map, 0 - 1) IN
    IF IsErr(curve) THEN curve ELSE
    IF curve[2] # P_256_CURVE THEN Err(CTAP2_ERR_UNSUPPORTED_ALGORITHM) ELSE
    PubKey_coordinates(map)

PubKey_try_from(cose_key) ==
    LET map == cose_key[2]
        key_type == IntegerAt(map, 1)
    IN
    IF IsErr(key_type) THEN key_type ELSE
    IF key_type[2] # EC2_KEY_TYPE THEN Err(CTAP2_ERR_UNSUPPORTED_ALGORITHM) ELSE
    LET algorithm == IntegerAt(map, 3) IN
    IF IsErr(algorithm) THEN algorithm ELSE
    IF algorithm[2] # ECDH_ALGORITHM /\ algorithm[2] # ES256_ALGORITHM
    THEN Err(CTAP2_ERR_UNSUPPORTED_ALGORITHM) ELSE
    LET curve == IntegerAt(map, 0 - 1) IN
    IF IsErr(curve) THEN curve ELSE
    IF curve[2] # P_256_CURVE THEN Err(CTAP2_ERR_UNSUPPORTED_ALGORITHM) ELSE
    PubKey_coordinates(map)

(***************************************************************************)
(* Public keys held in memory, and key-agreement maps received.            *)
(***************************************************************************)
PubKeys == {<<"PubKey", pt[1], pt[2]>> : pt \in P256Points}

CoordinateNodes ==
    { ByteString(P256_Gx), ByteString(P256_Gy),
      ByteString(Fill(NBYTES - 1, 1)), ByteString(Fill(NBYTES + 1, 1)),
      TextString("x") }

CoseKeys ==
    { CoseKey(Payload(cbor_map_options(<<
          <<cbor_int(1), l1>>, <<cbor_int(3), l3>>, <<cbor_int(0 - 1), c>>,
          <<cbor_int(0 - 2), x>>, <<cbor_int(0 - 3), y>> >>))) :
        l1 \in Options({Unsigned(2), Unsigned(3), Negative(0 - 2),
                        Unsigned(I64_MAX + 1), TextString("EC2")}),
        l3 \in Options({Negative(0 - 25), Negative(0 - 7), Negative(0 - 8),
                        Unsigned(25), cbor_true}),
        c \in Options({Unsigned(1), Unsigned(2), Unsigned(0), Negative(0 - 1),
                       ByteString(<<1>>)}),
        x \in Options(CoordinateNodes),
        y \in Options(CoordinateNodes) }

\* A public key is put into its key-agreement map.
EncodeCoseKey ==
    /\ pc = "value"
    /\ value[1] = "PubKey"
    /\ wire' = CoseKey_from(value[2])
    /\ op' = "CoseKey::from"
    /\ pc' = "wire"
    /\ UNCHANGED <<value, result, created_cbor>>

DecodeCoseKey == Apply("PubKey::try_from", PubKey_try_from(wire))

InitCose ==
    \/ InitWire(CoseKeys)
    \/ InitValue("PubKey", PubKeys)

NextCose ==
    \/ EncodeCoseKey
    \/ DecodeCoseKey

SpecCose == InitCose /\ [][NextCose]_vars

\* The node is an integer that fits the signed word.
IsInteger(v) ==
    \/ Kind(v) = "Negative"
    \/ Kind(v) = "Unsigned" /\ Payload(v) <= I64_MAX

\* The map binds `label` to the integer i.
HasInteger(m, label, i) ==
    /\ cbor_int(label) \in DOMAIN m
    /\ m[cbor_int(label)] = cbor_int(i)

\* The map binds `label` to an integer outside `accepted`.
HasOtherInteger(m, label, accepted) ==
    /\ cbor_int(label) \in DOMAIN m
    /\ IsInteger(m[cbor_int(label)])
    /\ Payload(m[cbor_int(label)]) \notin accepted

\* The map binds `label` to a byte string of the coordinate width, or of another width.
HasCoordinate(m, label) ==
    /\ cbor_int(label) \in DOMAIN m
    /\ Kind(m[cbor_int(label)]) = "ByteString"
    /\ Len(Payload(m[cbor_int(label)])) = 32

HasBadCoordinate(m, label) ==
    /\ cbor_int(label) \in DOMAIN m
    /\ Kind(m[cbor_int(label)]) = "ByteString"
    /\ Len(Payload(m[cbor_int(label)])) # 32

(***************************************************************************)
(* C9: error kinds of key-agreement key decode.  Decoding is fail-fast     *)
(* over the labels 1, 3, -1, -2, -3, and the check that fails decides the  *)
(* error: CTAP2_ERR_UNSUPPORTED_ALGORITHM when the key type (label 1) is   *)
(* not 2, when the algorithm (label 3) is neither -25 nor -7, or when the  *)
(* curve (label -1) is any value other than 1;                             *)
(* CTAP1_ERR_INVALID_PARAMETER when the x (label -2) or y (label -3) byte  *)
(* string is not exactly 32 bytes long.  Both -25 and -7 are accepted as   *)
(* the algorithm.                                                          *)
(***************************************************************************)
C9_CoseErrorKinds ==
    op = "PubKey::try_from" =>
        LET m == Payload(wire)
            typeOk == HasInteger(m, 1, 2)
            algOk == HasInteger(m, 3, 0 - 25) \/ HasInteger(m, 3, 0 - 7)
            curveOk == HasInteger(m, 0 - 1, 1)
        IN
        /\ HasOtherInteger(m, 1, {2}) =>
              result = Err(CTAP2_ERR_UNSUPPORTED_ALGORITHM)
        /\ (typeOk /\ HasOtherInteger(m, 3, {0 - 25, 0 - 7})) =>
              result = Err(CTAP2_ERR_UNSUPPORTED_ALGORITHM)
        /\ (typeOk /\ algOk /\ HasOtherInteger(m, 0 - 1, {1})) =>
              result = Err(CTAP2_ERR_UNSUPPORTED_ALGORITHM)
        /\ (typeOk /\ algOk /\ curveOk /\ HasBadCoordinate(m, 0 - 2)) =>
              result = Err(CTAP1_ERR_INVALID_PARAMETER)
        /\ (typeOk /\ algOk /\ curveOk /\ HasCoordinate(m, 0 - 2)
                /\ HasBadCoordinate(m, 0 - 3)) =>
              result = Err(CTAP1_ERR_INVALID_PARAMETER)
        /\ (typeOk /\ algOk /\ curveOk
                /\ Get(m, cbor_int(0 - 2)) = Some(ByteString(P256_Gx))
                /\ Get(m, cbor_int(0 - 3)) = Some(ByteString(P256_Gy))) =>
              result = Ok(<<"PubKey", P256_Gx, P256_Gy>>)

\* A key with the alias algorithm -7 and curve 2 has been refused for its curve.
C9_Witness ==
    /\ op = "PubKey::try_from"
    /\ HasInteger(Payload(wire), 1, 2)
    /\ HasInteger(Payload(wire), 3, 0 - 7)
    /\ HasInteger(Payload(wire), 0 - 1, 2)
    /\ result = Err(CTAP2_ERR_UNSUPPORTED_ALGORITHM)

(***************************************************************************)
(* C10: key-agreement key round trip.  For every valid EC public key pk,   *)
(* encoding pk yields a map with exactly the five labels 1 -> 2, 3 -> -25, *)
(* -1 -> 1, -2 -> x bytes and -3 -> y bytes (each coordinate 32 bytes),    *)
(* and decoding that map succeeds and returns a key equal to pk.           *)
(***************************************************************************)
C10_CoseRoundTrip ==
    (value # None /\ value[1] = "PubKey") =>
        /\ pc # "value" =>
              /\ wire = <<"CoseKey",
                          (Unsigned(1) :> Unsigned(2))
                          @@ (Unsigned(3) :> Negative(0 - 25))
                          @@ (Negative(0 - 1) :> Unsigned(1))
                          @@ (Negative(0 - 2) :> ByteString(value[2][2]))
                          @@ (Negative(0 - 3) :> ByteString(value[2][3]))>>
              /\ Len(value[2][2]) = 32
              /\ Len(value[2][3]) = 32
        /\ op = "PubKey::try_from" => result = Ok(value[2])

\* The encoding of the point 2G has been decoded to 2G.
C10_Witness ==
    /\ op = "PubKey::try_from"
    /\ value = <<"PubKey", <<"PubKey", P256_2Gx, P256_2Gy>>>>
    /\ result = Ok(value[2])

(***************************************************************************)
(* Wire entity decoders.                                                   *)
(***************************************************************************)
\* ecdsa::PubKey::ES256_ALGORITHM
ECDSA_ES256_ALGORITHM == 0 - 7

\* map.get(key).map(read_text_string).transpose()
OptionalText(map, key) ==
    transpose(IF key \in DOMAIN map THEN Some(read_text_string(map[key])) ELSE None)

\* The decoder with the name and the icon exchanged.
PublicKeyCredentialRpEntity_try_from_swapped(cbor_value) ==
    LET m == read_map(cbor_value) IN
    IF IsErr(m) THEN m ELSE
    LET rp_map == m[2]
        id_node == ok_or_missing(Get(rp_map, TextString("id")))
        rp_id == IF IsErr(id_node) THEN id_node ELSE read_text_string(id_node[2])
    IN
    IF IsErr(rp_id) THEN rp_id ELSE
    LET rp_name == OptionalText(rp_map, TextString("name")) IN
    IF IsErr(rp_name) THEN rp_name ELSE
    LET rp_icon == OptionalText(rp_map, TextString("icon")) IN
    IF IsErr(rp_icon) THEN rp_icon ELSE
    Ok([rp_id |-> rp_id[2], rp_name |-> rp_icon[2], rp_icon |-> rp_name[2]])

PublicKeyCredentialRpEntity_try_from(cbor_value) ==
    LET m == read_map(cbor_value) IN
    IF IsErr(m) THEN m ELSE
    LET rp_map == m[2]
        id_node == ok_or_missing(Get(rp_map, TextString("id")))
        rp_id == IF IsErr(id_node) THEN id_node ELSE read_text_string(id_node[2])
    IN
    IF IsErr(rp_id) THEN rp_id ELSE
    LET rp_name == OptionalText(rp_map, TextString("name")) IN
    IF IsErr(rp_name) THEN rp_name ELSE
    LET rp_icon == OptionalText(rp_map, TextString("icon")) IN
    IF IsErr(rp_icon) THEN rp_icon ELSE
    Ok([rp_id |-> rp_id[2], rp_name |-> rp_name[2], rp_icon |-> rp_icon[2]])

PublicKeyCredentialUserEntity_try_from(cbor_value) ==
    LET m == read_map(cbor_value) IN
    IF IsErr(m) THEN m ELSE
    LET user_map == m[2]
        id_node == ok_or_missing(Get(user_map, TextString("id")))
        user_id == IF IsErr(id_node) THEN id_node ELSE read_byte_string(id_node[2])
    IN
    IF IsErr(user_id) THEN user_id ELSE
    LET user_name == OptionalText(user_map, TextString("name")) IN
    IF IsErr(user_name) THEN user_name ELSE
    LET user_display_name == OptionalText(user_map, TextString("displayName")) IN
    IF IsErr(user_display_name) THEN user_display_name ELSE
    LET user_icon == OptionalText(user_map, TextString("icon")) IN
    IF IsErr(user_icon) THEN user_icon ELSE
    Ok([ user_id |-> user_id[2],
         user_name |-> user_name[2],
         user_display_name |-> user_display_name[2],
         user_icon |-> user_icon[2] ])

\* The decoder made strict: a text other than "public-key" is refused.
PublicKeyCredentialType_try_from_strict(cbor_value) ==
    LET cred_type_string == read_text_string(cbor_value) IN
    IF IsErr(cred_type_string) THEN cred_type_string ELSE
    IF cred_type_string[2] = "public-key" THEN Ok("PublicKey")
    ELSE Err(CTAP2_ERR_CBOR_UNEXPECTED_TYPE)

PublicKeyCredentialType_try_from(cbor_value) ==
    LET cred_type_string == read_text_string(cbor_value) IN
    IF IsErr(cred_type_string) THEN cred_type_string ELSE
    IF cred_type_string[2] = "public-key" THEN Ok("PublicKey") ELSE Ok("Unknown")

SignatureAlgorithm_try_from(cbor_value) ==
    LET alg == read_integer(cbor_value) IN
    IF IsErr(alg) THEN alg ELSE
    IF alg[2] = ECDSA_ES256_ALGORITHM THEN Ok("ES256") ELSE Ok("Unknown")

PublicKeyCredentialParameter_try_from(cbor_value) ==
    LET m == read_map(cbor_value) IN
    IF IsErr(m) THEN m ELSE
    LET cred_param_map == m[2]
        type_node == ok_or_missing(Get(cred_param_map, TextString("type")))
        cred_type == IF IsErr(type_node) THEN type_node
                     ELSE PublicKeyCredentialType_try_from(type_node[2])
    IN
    IF IsErr(cred_type) THEN cred_type ELSE
    LET alg_node == ok_or_missing(Get(cred_param_map, TextString("alg")))
        alg == IF IsErr(alg_node) THEN alg_node
               ELSE SignatureAlgorithm_try_from(alg_node[2])
    IN
    IF IsErr(alg) THEN alg ELSE
    Ok([cred_type |-> cred_type[2], alg |-> alg[2]])

\* The decoder with a catch-all: an unrecognized text is taken for Internal.
AuthenticatorTransport_try_from_catch_all(cbor_value) ==
    LET transport_string == read_text_string(cbor_value) IN
    IF IsErr(transport_string) THEN transport_string ELSE
    CASE transport_string[2] = "usb" -> Ok("Usb")
      [] transport_string[2] = "nfc" -> Ok("Nfc")
      [] transport_string[2] = "ble" -> Ok("Ble")
      [] OTHER -> Ok("Internal")

AuthenticatorTransport_try_from(cbor_value) ==
    LET transport_string == read_text_string(cbor_value) IN
    IF IsErr(transport_string) THEN transport_string ELSE
    CASE transport_string[2] = "usb" -> Ok("Usb")
      [] transport_string[2] = "nfc" -> Ok("Nfc")
      [] transport_string[2] = "ble" -> Ok("Ble")
      [] transport_string[2] = "internal" -> Ok("Internal")
      [] OTHER -> Err(CTAP2_ERR_CBOR_UNEXPECTED_TYPE)

\* iter().map(AuthenticatorTransport::try_from).collect::<Result<Vec<_>, _>>():
\* the transports in order, or the error of the first element that has one.
CollectTransports(transport_vec) ==
    LET failed == {i \in DOMAIN transport_vec :
                      IsErr(AuthenticatorTransport_try_from(transport_vec[i]))}
    IN
    IF failed # {}
    THEN LET first == CHOOSE i \in failed : \A j \in failed : i <= j
         IN AuthenticatorTransport_try_from(transport_vec[first])
    ELSE Ok([i \in DOMAIN transport_vec |->
                AuthenticatorTransport_try_from(transport_vec[i])[2]])

PublicKeyCredentialDescriptor_try_from(cbor_value) ==
    LET m == read_map(cbor_value) IN
    IF IsErr(m) THEN m ELSE
    LET cred_desc_map == m[2]
        type_node == ok_or_missing(Get(cred_desc_map, TextString("type")))
        key_type == IF IsErr(type_node) THEN type_node
                    ELSE PublicKeyCredentialType_try_from(type_node[2])
    IN
    IF IsErr(key_type) THEN key_type ELSE
    LET id_node == ok_or_missing(Get(cred_desc_map, TextString("id")))
        key_id == IF IsErr(id_node) THEN id_node ELSE read_byte_string(id_node[2])
    IN
    IF IsErr(key_id) THEN key_id ELSE
    LET transports ==
            IF TextString("transports") \in DOMAIN cred_desc_map
            THEN LET transport_vec == read_array(cred_desc_map[TextString("transports")])
                 IN IF IsErr(transport_vec) THEN transport_vec ELSE
                    LET collected == CollectTransports(transport_vec[2]) IN
                    IF IsErr(collected) THEN collected ELSE Ok(Some(collected[2]))
            ELSE Ok(None)
    IN
    IF IsErr(transports) THEN transports ELSE
    Ok([key_type |-> key_type[2], key_id |-> key_id[2], transports |-> transports[2]])

GetAssertionHmacSecretInput_try_from(cbor_value) ==
    LET m == read_map(cbor_value) IN
    IF IsErr(m) THEN m ELSE
    LET input_map == m[2]
        key_node == ok_or_missing(Get(input_map, Unsigned(1)))
        cose_key == IF IsErr(key_node) THEN key_node ELSE read_map(key_node[2])
    IN
    IF IsErr(cose_key) THEN cose_key ELSE
    LET enc_node == ok_or_missing(Get(input_map, Unsigned(2)))
        salt_enc == IF IsErr(enc_node) THEN enc_node ELSE read_byte_string(enc_node[2])
    IN
    IF IsErr(salt_enc) THEN salt_enc ELSE
    LET auth_node == ok_or_missing(Get(input_map, Unsigned(3)))
        salt_auth == IF IsErr(auth_node) THEN auth_node ELSE read_byte_string(auth_node[2])
    IN
    IF IsErr(salt_auth) THEN salt_auth ELSE
    Ok([ key_agreement |-> CoseKey(cose_key[2]),
         salt_enc |-> salt_enc[2],
         salt_auth |-> salt_auth[2] ])

(***************************************************************************)
(* Trees handed to the wire entity decoders.                               *)
(***************************************************************************)
TypeNodes == {TextString("public-key"), TextString("unknown-type"), Unsigned(1)}

IdentityNodes ==
    { cbor_map_options(<<
          <<TextString("id"), id>>, <<TextString("name"), name>>,
          <<TextString("displayName"), display>>, <<TextString("icon"), icon>> >>) :
        id \in Options({TextString("example.com"), ByteString(<<29, 29, 29, 29>>),
                        Unsigned(1)}),
        name \in Options({TextString("foo"), Unsigned(2)}),
        display \in Options({TextString("bar"), cbor_true}),
        icon \in Options({TextString("example.com/icon.png"), ByteString(<<1>>)}) }

ParameterNodes ==
    { cbor_map_options(<<<<TextString("type"), type>>, <<TextString("alg"), alg>>>>) :
        type \in Options(TypeNodes),
        alg \in Options({Negative(0 - 7), Negative(0 - 8), Unsigned(7),
                         Unsigned(I64_MAX + 1), TextString("ES256")}) }

TransportNodes ==
    { Array(<<>>),
      Array(<<TextString("usb"), TextString("nfc")>>),
      Array(<<TextString("ble"), TextString("internal")>>),
      Array(<<TextString("usb"), TextString("carrier-pigeon")>>),
      Array(<<Unsigned(1), TextString("carrier-pigeon")>>),
      TextString("usb") }

DescriptorNodes ==
    { cbor_map_options(<<
          <<TextString("type"), type>>, <<TextString("id"), id>>,
          <<TextString("transports"), transports>> >>) :
        type \in Options(TypeNodes),
        id \in Options({ByteString(<<29, 29, 29, 29>>), TextString("example.com")}),
        transports \in Options(TransportNodes) }

HmacSecretNodes ==
    { cbor_map_options(<<
          <<Unsigned(1), key>>, <<Unsigned(2), enc>>, <<Unsigned(3), auth>> >>) :
        key \in Options({Map(CoseKey_from(<<"PubKey", P256_Gx, P256_Gy>>)[2]),
                         Map(EmptyMap), ByteString(<<1>>)}),
        enc \in Options({ByteString(Fill(NBYTES, 2)), TextString("salt")}),
        auth \in Options({ByteString(Fill(NBYTES, 3)), Unsigned(3)}) }

EntityNodes ==
    IdentityNodes \cup ParameterNodes \cup DescriptorNodes \cup HmacSecretNodes
        \cup {cbor_true, Unsigned(1), TextString("id"), Array(<<>>)}

DecodeRpEntity ==
    Apply("PublicKeyCredentialRpEntity::try_from",
          PublicKeyCredentialRpEntity_try_from(wire))

DecodeUserEntity ==
    Apply("PublicKeyCredentialUserEntity::try_from",
          PublicKeyCredentialUserEntity_try_from(wire))

DecodeCredentialParameter ==
    Apply("PublicKeyCredentialParameter::try_from",
          PublicKeyCredentialParameter_try_from(wire))

DecodeCredentialDescriptor ==
    Apply("PublicKeyCredentialDescriptor::try_from",
          PublicKeyCredentialDescriptor_try_from(wire))

DecodeHmacSecretInput ==
    Apply("GetAssertionHmacSecretInput::try_from",
          GetAssertionHmacSecretInput_try_from(wire))

\* Every decoder with required fields, on trees from the transport and from storage.
InitDecode == InitWire(EntityNodes \cup StoredNodes)

NextDecode ==
    \/ DecodeRpEntity
    \/ DecodeUserEntity
    \/ DecodeCredentialParameter
    \/ DecodeCredentialDescriptor
    \/ DecodeHmacSecretInput
    \/ DecodeCredentialSource

SpecDecode == InitDecode /\ [][NextDecode]_vars

(***************************************************************************)
(* The fields of each decoder that has required fields: key, expected      *)
(* kind, and whether the field is required.                                *)
(***************************************************************************)
Field(key, kind, required) == [key |-> key, kind |-> kind, required |-> required]

FieldsOf(name) ==
    CASE name = "PublicKeyCredentialRpEntity::try_from" ->
           { Field(TextString("id"), "text", TRUE),
             Field(TextString("name"), "text", FALSE),
             Field(TextString("icon"), "text", FALSE) }
      [] name = "PublicKeyCredentialUserEntity::try_from" ->
           { Field(TextString("id"), "bytes", TRUE),
             Field(TextString("name"), "text", FALSE),
             Field(TextString("displayName"), "text", FALSE),
             Field(TextString("icon"), "text", FALSE) }
      [] name = "PublicKeyCredentialParameter::try_from" ->
           { Field(TextString("type"), "text", TRUE),
             Field(TextString("alg"), "integer", TRUE) }
      [] name = "PublicKeyCredentialDescriptor::try_from" ->
           { Field(TextString("type"), "text", TRUE),
             Field(TextString("id"), "bytes", TRUE),
             Field(TextString("transports"), "transports", FALSE) }
      [] name = "GetAssertionHmacSecretInput::try_from" ->
           { Field(Unsigned(1), "map", TRUE),
             Field(Unsigned(2), "bytes", TRUE),
             Field(Unsigned(3), "bytes", TRUE) }
      [] name = "PublicKeyCredentialSource::try_from" ->
           { Field(Unsigned(0), "bytes", TRUE),
             Field(Unsigned(1), "scalar", TRUE),
             Field(Unsigned(2), "text", TRUE),
             Field(Unsigned(3), "bytes", TRUE),
             Field(Unsigned(4), "text", FALSE),
             Field(Unsigned(5), "bytes", FALSE) }
      [] OTHER -> {}

\* The node is of the kind the field expects.
RightKind(v, kind) ==
    CASE kind = "text" -> Kind(v) = "TextString"
      [] kind = "bytes" -> Kind(v) = "ByteString"
      [] kind = "scalar" -> Kind(v) = "ByteString"
      [] kind = "integer" -> IsInteger(v)
      [] kind = "map" -> Kind(v) = "Map"
      [] kind = "transports" ->
           /\ Kind(v) = "Array"
           /\ \A i \in DOMAIN Payload(v) :
                 Payload(v)[i] \in {TextString("usb"), TextString("nfc"),
                                    TextString("ble"), TextString("internal")}

\* The node is of the right kind and holds a value the decoder accepts.
WellFormed(v, kind) ==
    /\ RightKind(v, kind)
    /\ kind = "scalar" =>
          /\ Len(Payload(v)) = 32
          /\ \E i \in 1..32 : Payload(v)[i] # 0
          /\ BytesLess(Payload(v), P256_ORDER)

(***************************************************************************)
(* C7: missing and wrong-type are never conflated.  In every decoder with  *)
(* required fields (RelyingPartyEntity id, UserEntity id,                  *)
(* CredentialParameter type and alg, CredentialDescriptor type and id,     *)
(* hmac-secret input labels 1/2/3, CredentialSource tags 0..3), a map that *)
(* is otherwise well-formed but lacks a required key fails with            *)
(* CTAP2_ERR_MISSING_PARAMETER, and one where that key holds a value of    *)
(* the wrong kind fails with CTAP2_ERR_CBOR_UNEXPECTED_TYPE.  On any map,  *)
(* CTAP2_ERR_MISSING_PARAMETER is returned only when a required key is     *)
(* absent and CTAP2_ERR_CBOR_UNEXPECTED_TYPE only when a key is present    *)
(* with a value of the wrong kind.                                         *)
(***************************************************************************)
C7_MissingVersusType ==
    (FieldsOf(op) # {} /\ Kind(wire) = "Map") =>
        LET m == Payload(wire)
            F == FieldsOf(op)
            fine(g) == IF g.key \in DOMAIN m THEN WellFormed(m[g.key], g.kind)
                       ELSE ~g.required
            othersFine(f) == \A g \in F \ {f} : fine(g)
        IN
        /\ \A f \in F : (f.required /\ othersFine(f)) =>
              /\ f.key \notin DOMAIN m => result = Err(CTAP2_ERR_MISSING_PARAMETER)
              /\ (f.key \in DOMAIN m /\ ~RightKind(m[f.key], f.kind)) =>
                    result = Err(CTAP2_ERR_CBOR_UNEXPECTED_TYPE)
        /\ result = Err(CTAP2_ERR_MISSING_PARAMETER) =>
              \E f \in F : f.required /\ f.key \notin DOMAIN m
        /\ result = Err(CTAP2_ERR_CBOR_UNEXPECTED_TYPE) =>
              \E f \in F : f.key \in DOMAIN m /\ ~RightKind(m[f.key], f.kind)

\* A stored credential without its user handle (tag 3), otherwise well-formed,
\* has been refused as lacking a parameter.
C7_Witness ==
    /\ op = "PublicKeyCredentialSource::try_from"
    /\ Kind(wire) = "Map"
    /\ DOMAIN Payload(wire) = SourceTags \ {UserHandle}
    /\ \A f \in FieldsOf(op) :
          f.key \in DOMAIN Payload(wire) => WellFormed(Payload(wire)[f.key], f.kind)
    /\ result = Err(CTAP2_ERR_MISSING_PARAMETER)

(***************************************************************************)
(* Enumeration codecs.  created_cbor holds the tree made by encoding a     *)
(* decoded value again (pc = "reencoded"), next to the tree it was decoded *)
(* from, which stays in wire.                                              *)
(***************************************************************************)
PublicKeyCredentialType_into(cred_type) ==
    CASE cred_type = "PublicKey" -> TextString("public-key")
      [] cred_type = "Unknown" -> TextString("unknown")

AuthenticatorTransport_into(transport) ==
    CASE transport = "Usb" -> TextString("usb")
      [] transport = "Nfc" -> TextString("nfc")
      [] transport = "Ble" -> TextString("ble")
      [] transport = "Internal" -> TextString("internal")

\* The discriminant of the variant: cred_param.alg as i64.
SignatureAlgorithm_as_i64(alg) ==
    CASE alg = "ES256" -> ECDSA_ES256_ALGORITHM
      [] alg = "Unknown" -> 0

\* The encoder with the codes of SetPin and ChangePin exchanged.
ClientPinSubCommand_into_swapped(subcommand) ==
    CASE subcommand = "GetPinRetries" -> cbor_int(1)
      [] subcommand = "GetKeyAgreement" -> cbor_int(2)
      [] subcommand = "SetPin" -> cbor_int(4)
      [] subcommand = "ChangePin" -> cbor_int(3)
      [] subcommand = "GetPinUvAuthTokenUsingPin" -> cbor_int(5)
      [] subcommand = "GetPinUvAuthTokenUsingUv" -> cbor_int(6)
      [] subcommand = "GetUvRetries" -> cbor_int(7)

ClientPinSubCommand_into(subcommand) ==
    CASE subcommand = "GetPinRetries" -> cbor_int(1)
      [] subcommand = "GetKeyAgreement" -> cbor_int(2)
      [] subcommand = "SetPin" -> cbor_int(3)
      [] subcommand = "ChangePin" -> cbor_int(4)
      [] subcommand = "GetPinUvAuthTokenUsingPin" -> cbor_int(5)
      [] subcommand = "GetPinUvAuthTokenUsingUv" -> cbor_int(6)
      [] subcommand = "GetUvRetries" -> cbor_int(7)

\* A decoder with a status code of its own for an unknown sub-command.
ClientPinSubCommand_try_from_own_code(cbor_value) ==
    LET subcommand_int == read_unsigned(cbor_value) IN
    IF IsErr(subcommand_int) THEN subcommand_int ELSE
    CASE subcommand_int[2] = 1 -> Ok("GetPinRetries")
      [] subcommand_int[2] = 2 -> Ok("GetKeyAgreement")
      [] subcommand_int[2] = 3 -> Ok("SetPin")
      [] subcommand_int[2] = 4 -> Ok("ChangePin")
      [] subcommand_int[2] = 5 -> Ok("GetPinUvAuthTokenUsingPin")
      [] subcommand_int[2] = 6 -> Ok("GetPinUvAuthTokenUsingUv")
      [] subcommand_int[2] = 7 -> Ok("GetUvRetries")
      [] OTHER -> Err("CTAP2_ERR_INVALID_SUBCOMMAND")

ClientPinSubCommand_try_from(cbor_value) ==
    LET subcommand_int == read_unsigned(cbor_value) IN
    IF IsErr(subcommand_int) THEN subcommand_int ELSE
    CASE subcommand_int[2] = 1 -> Ok("GetPinRetries")
      [] subcommand_int[2] = 2 -> Ok("GetKeyAgreement")
      [] subcommand_int[2] = 3 -> Ok("SetPin")
      [] subcommand_int[2] = 4 -> Ok("ChangePin")
      [] subcommand_int[2] = 5 -> Ok("GetPinUvAuthTokenUsingPin")
      [] subcommand_int[2] = 6 -> Ok("GetPinUvAuthTokenUsingUv")
      [] subcommand_int[2] = 7 -> Ok("GetUvRetries")
      [] OTHER -> Err(CTAP1_ERR_INVALID_PARAMETER)

\* The variants of each enumeration.
PublicKeyCredentialTypes == {"PublicKey", "Unknown"}

AuthenticatorTransports == {"Usb", "Nfc", "Ble", "Internal"}

SignatureAlgorithms == {"ES256", "Unknown"}

ClientPinSubCommands ==
    {"GetPinRetries", "GetKeyAgreement", "SetPin", "ChangePin",
     "GetPinUvAuthTokenUsingPin", "GetPinUvAuthTokenUsingUv", "GetUvRetries"}

\* Text and number nodes a client may send where an enumeration is expected.
EnumNodes ==
    { TextString(s) : s \in {"usb", "nfc", "ble", "internal", "carrier-pigeon", "USB",
                             "public-key", "unknown-type", "unknown", ""} }
        \cup PrimitiveNodes

\* An in-memory value is encoded into the tree to send.
Encode(kind, name, tree) ==
    /\ pc = "value"
    /\ value[1] = kind
    /\ wire' = tree
    /\ op' = name
    /\ pc' = "wire"
    /\ UNCHANGED <<value, result, created_cbor>>

\* The value a decoder returned is encoded again.
Reencode(name, tree) ==
    /\ pc = "done"
    /\ op = name
    /\ IsOk(result)
    /\ created_cbor' = tree
    /\ pc' = "reencoded"
    /\ UNCHANGED <<value, wire, result, op>>

EncodeCredentialType ==
    Encode("PublicKeyCredentialType", "PublicKeyCredentialType::into",
           PublicKeyCredentialType_into(value[2]))

DecodeCredentialType ==
    Apply("PublicKeyCredentialType::try_from", PublicKeyCredentialType_try_from(wire))

ReencodeCredentialType ==
    Reencode("PublicKeyCredentialType::try_from", PublicKeyCredentialType_into(result[2]))

EncodeTransport ==
    Encode("AuthenticatorTransport", "AuthenticatorTransport::into",
           AuthenticatorTransport_into(value[2]))

DecodeTransport ==
    Apply("AuthenticatorTransport::try_from", AuthenticatorTransport_try_from(wire))

ReencodeTransport ==
    Reencode("AuthenticatorTransport::try_from", AuthenticatorTransport_into(result[2]))

DecodeSignatureAlgorithm ==
    Apply("SignatureAlgorithm::try_from", SignatureAlgorithm_try_from(wire))

EncodeClientPinSubCommand ==
    Encode("ClientPinSubCommand", "ClientPinSubCommand::into",
           ClientPinSubCommand_into(value[2]))

DecodeClientPinSubCommand ==
    Apply("ClientPinSubCommand::try_from", ClientPinSubCommand_try_from(wire))

ReencodeClientPinSubCommand ==
    Reencode("ClientPinSubCommand::try_from", ClientPinSubCommand_into(result[2]))

InitEnum ==
    \/ InitWire(EnumNodes)
    \/ InitValue("PublicKeyCredentialType", PublicKeyCredentialTypes)
    \/ InitValue("AuthenticatorTransport", AuthenticatorTransports)
    \/ InitValue("ClientPinSubCommand", ClientPinSubCommands)

NextEnum ==
    \/ EncodeCredentialType
    \/ DecodeCredentialType
    \/ ReencodeCredentialType
    \/ EncodeTransport
    \/ DecodeTransport
    \/ ReencodeTransport
    \/ DecodeSignatureAlgorithm
    \/ EncodeClientPinSubCommand
    \/ DecodeClientPinSubCommand
    \/ ReencodeClientPinSubCommand

SpecEnum == InitEnum /\ [][NextEnum]_vars

(***************************************************************************)
(* C11: Transport is strict.  Decoding a transport from a text node        *)
(* succeeds exactly for "usb", "nfc", "ble" and "internal", each giving    *)
(* its own variant, which encodes back to the same string, and fails with  *)
(* CTAP2_ERR_CBOR_UNEXPECTED_TYPE for every other text: no unrecognized    *)
(* string decodes to a transport.                                          *)
(***************************************************************************)
C11_TransportStrict ==
    (op = "AuthenticatorTransport::try_from" /\ Kind(wire) = "TextString") =>
        LET s == Payload(wire) IN
        /\ s = "usb" => result = Ok("Usb")
        /\ s = "nfc" => result = Ok("Nfc")
        /\ s = "ble" => result = Ok("Ble")
        /\ s = "internal" => result = Ok("Internal")
        /\ s \notin {"usb", "nfc", "ble", "internal"} =>
              result = Err(CTAP2_ERR_CBOR_UNEXPECTED_TYPE)
        /\ pc = "reencoded" => created_cbor = wire

\* The text "carrier-pigeon" has been refused as a transport.
C11_Witness ==
    /\ op = "AuthenticatorTransport::try_from"
    /\ wire = TextString("carrier-pigeon")
    /\ result = Err(CTAP2_ERR_CBOR_UNEXPECTED_TYPE)

(***************************************************************************)
(* C12: SignatureAlgorithm is lenient.  Decoding a signature algorithm     *)
(* from any unsigned or negative integer node yields ES256 exactly when    *)
(* the number is the ES256 code and Unknown for every other number, never  *)
(* an error.                                                               *)
(***************************************************************************)
C12_SignatureAlgorithmLenient ==
    (op = "SignatureAlgorithm::try_from" /\ Kind(wire) \in {"Unsigned", "Negative"}) =>
        result = IF Payload(wire) = ECDSA_ES256_ALGORITHM THEN Ok("ES256")
                 ELSE Ok("Unknown")

(***************************************************************************)
(* C13: CredentialType is lenient.  Decoding a credential type from any    *)
(* text node succeeds, with PublicKey exactly for "public-key" and Unknown *)
(* for every other text; CTAP2_ERR_CBOR_UNEXPECTED_TYPE is returned only   *)
(* for a node that is not a text string.                                   *)
(***************************************************************************)
C13_CredentialTypeLenient ==
    op = "PublicKeyCredentialType::try_from" =>
        IF Kind(wire) = "TextString"
        THEN result = IF Payload(wire) = "public-key" THEN Ok("PublicKey")
                      ELSE Ok("Unknown")
        ELSE result = Err(CTAP2_ERR_CBOR_UNEXPECTED_TYPE)

\* The text "unknown-type" has been decoded to the Unknown credential type.
C13_Witness ==
    /\ op = "PublicKeyCredentialType::try_from"
    /\ wire = TextString("unknown-type")
    /\ result = Ok("Unknown")

(***************************************************************************)
(* C14: ClientPinSubCommand codes are a bijection and strict.  Decoding    *)
(* maps the unsigned codes 1..7 one-to-one onto the seven sub-commands,    *)
(* encoding maps each sub-command back to its code, so that decoding an    *)
(* encoded sub-command returns it and encoding a decoded code returns the  *)
(* code, and every other unsigned code fails with an error.                *)
(***************************************************************************)
C14_ClientPinBijection ==
    LET names == <<"GetPinRetries", "GetKeyAgreement", "SetPin", "ChangePin",
                   "GetPinUvAuthTokenUsingPin", "GetPinUvAuthTokenUsingUv",
                   "GetUvRetries">>
    IN
    op = "ClientPinSubCommand::try_from" =>
        /\ Kind(wire) = "Unsigned" =>
              IF Payload(wire) \in 1..7
              THEN /\ result = Ok(names[Payload(wire)])
                   /\ pc = "reencoded" => created_cbor = wire
              ELSE IsErr(result) /\ pc # "reencoded"
        /\ value[1] = "ClientPinSubCommand" =>
              /\ result = Ok(value[2])
              /\ \E n \in 1..7 : wire = Unsigned(n) /\ names[n] = value[2]

\* The code 7 has been decoded to GetUvRetries and encoded back to 7.
C14_Witness ==
    /\ op = "ClientPinSubCommand::try_from"
    /\ pc = "reencoded"
    /\ wire = Unsigned(7)
    /\ result = Ok("GetUvRetries")
    /\ created_cbor = Unsigned(7)

(***************************************************************************)
(* Extensions: a mapping from extension names to raw nodes                 *)
(* (BTreeMap<String, cbor::Value>), here a function from strings to nodes. *)
(***************************************************************************)
\* cbor_map_btree!: the map node over an already built key-value tree.
cbor_map_btree(btree) == Map(btree)

\* A decoder that keeps only the extension it knows.
Extensions_try_from_known_only(cbor_value) ==
    LET m == read_map(cbor_value) IN
    IF IsErr(m) THEN m ELSE
    IF \E extension_key \in DOMAIN m[2] : Kind(extension_key) # "TextString"
    THEN Err(CTAP2_ERR_CBOR_UNEXPECTED_TYPE)
    ELSE Ok([extension_key_string \in
                 {Payload(k) : k \in DOMAIN m[2]} \cap {"hmac-secret"} |->
               m[2][TextString(extension_key_string)]])

\* A decoder that passes over the keys that are not text.
Extensions_try_from_skipping(cbor_value) ==
    LET m == read_map(cbor_value) IN
    IF IsErr(m) THEN m ELSE
    Ok([extension_key_string \in
            {Payload(k) : k \in {j \in DOMAIN m[2] : Kind(j) = "TextString"}} |->
          m[2][TextString(extension_key_string)]])

Extensions_try_from(cbor_value) ==
    LET m == read_map(cbor_value) IN
    IF IsErr(m) THEN m ELSE
    IF \E extension_key \in DOMAIN m[2] : Kind(extension_key) # "TextString"
    THEN Err(CTAP2_ERR_CBOR_UNEXPECTED_TYPE)
    ELSE Ok([extension_key_string \in {Payload(k) : k \in DOMAIN m[2]} |->
               m[2][TextString(extension_key_string)]])

Extensions_into(extensions) ==
    cbor_map_btree([k \in {TextString(key) : key \in DOMAIN extensions} |->
                      extensions[Payload(k)]])

\* An accessor that takes an entry that is not a boolean for an unset flag.
has_make_credential_hmac_secret_lax(extensions) ==
    IF "hmac-secret" \in DOMAIN extensions
    THEN Ok(extensions["hmac-secret"] = cbor_true)
    ELSE Ok(FALSE)

has_make_credential_hmac_secret(extensions) ==
    IF "hmac-secret" \in DOMAIN extensions
    THEN read_bool(extensions["hmac-secret"])
    ELSE Ok(FALSE)

\* An accessor that reports a malformed entry as an absent one.
get_assertion_hmac_secret_lax(extensions) ==
    IF "hmac-secret" \in DOMAIN extensions
    THEN LET input == GetAssertionHmacSecretInput_try_from(extensions["hmac-secret"])
         IN IF IsOk(input) THEN Some(input) ELSE None
    ELSE None

get_assertion_hmac_secret(extensions) ==
    IF "hmac-secret" \in DOMAIN extensions
    THEN Some(GetAssertionHmacSecretInput_try_from(extensions["hmac-secret"]))
    ELSE None

\* Extension names and payloads: the two hmac-secret flags, the hmac-secret
\* inputs, well-formed or not, and payloads of other kinds.
ExtensionNames == {"hmac-secret", "the_answer"}

ExtensionPayloads ==
    {cbor_true, cbor_false, Unsigned(42), ByteString(<<1>>)} \cup HmacSecretNodes

ExtensionValues ==
    UNION { [names -> ExtensionPayloads] : names \in SUBSET ExtensionNames }

\* The maps a client sends for them, maps with a key that is not a name,
\* and nodes that are not maps.
ExtensionNodes ==
    { Map([k \in {TextString(key) : key \in DOMAIN e} |-> e[Payload(k)]]) :
        e \in ExtensionValues }
      \cup { Map((k :> cbor_true) @@ (TextString("hmac-secret") :> v)) :
               k \in {Unsigned(1), ByteString(<<1>>), Negative(0 - 1)},
               v \in {cbor_true, Unsigned(42)} }
      \cup { Map((Unsigned(1) :> cbor_true)), cbor_true, Unsigned(1),
             TextString("hmac-secret"), Array(<<>>) }

EncodeExtensions ==
    Encode("Extensions", "Extensions::into", Extensions_into(value[2]))

DecodeExtensions == Apply("Extensions::try_from", Extensions_try_from(wire))

ReencodeExtensions == Reencode("Extensions::try_from", Extensions_into(result[2]))

\* The extensions at hand: built in memory, or returned by the decoder.
Held ==
    IF pc = "value" /\ value[1] = "Extensions" THEN Some(value[2])
    ELSE IF pc = "done" /\ op = "Extensions::try_from" /\ IsOk(result)
         THEN Some(result[2])
         ELSE None

\* An accessor is called on the extensions at hand.
Access(name, r) ==
    /\ IsSome(Held)
    /\ result' = r
    /\ op' = name
    /\ pc' = "accessed"
    /\ UNCHANGED <<value, wire, created_cbor>>

HasMakeCredentialHmacSecret ==
    Access("has_make_credential_hmac_secret", has_make_credential_hmac_secret(Held[2]))

GetAssertionHmacSecret ==
    Access("get_assertion_hmac_secret", get_assertion_hmac_secret(Held[2]))

InitExtensions ==
    \/ InitWire(ExtensionNodes)
    \/ InitValue("Extensions", ExtensionValues)

NextExtensions ==
    \/ EncodeExtensions
    \/ DecodeExtensions
    \/ ReencodeExtensions
    \/ HasMakeCredentialHmacSecret
    \/ GetAssertionHmacSecret

SpecExtensions == InitExtensions /\ [][NextExtensions]_vars

\* The "hmac-secret" entry of the extensions an accessor was called on.
HmacSecretEntry ==
    IF value[1] = "Extensions"
    THEN IF "hmac-secret" \in DOMAIN value[2] THEN Some(value[2]["hmac-secret"]) ELSE None
    ELSE Get(Payload(wire), TextString("hmac-secret"))

(***************************************************************************)
(* C15: get_assertion_hmac_secret returns one of three outcomes, decided   *)
(* by the "hmac-secret" entry: None when the entry is absent; Some(Ok) of  *)
(* the input carrying exactly the map at label 1 and the byte strings at   *)
(* labels 2 and 3 when the entry is a map holding them; Some(Err)          *)
(* otherwise, where an entry that is not a map gives                       *)
(* CTAP2_ERR_CBOR_UNEXPECTED_TYPE and each label is required (absent gives *)
(* CTAP2_ERR_MISSING_PARAMETER) and type-checked (wrong kind gives         *)
(* CTAP2_ERR_CBOR_UNEXPECTED_TYPE) independently of the other two.         *)
(***************************************************************************)
C15_GetAssertionHmacSecret ==
    op = "get_assertion_hmac_secret" =>
        IF HmacSecretEntry = None THEN result = None
        ELSE
        LET e == HmacSecretEntry[2]
            m == Payload(e)
            F == FieldsOf("GetAssertionHmacSecretInput::try_from")
            right(g) == g.key \in DOMAIN m /\ RightKind(m[g.key], g.kind)
        IN
        /\ result[1] = "Some"
        /\ Kind(e) # "Map" => result[2] = Err(CTAP2_ERR_CBOR_UNEXPECTED_TYPE)
        /\ Kind(e) = "Map" =>
              /\ (\A g \in F : right(g)) =>
                    result[2] = Ok([ key_agreement |-> CoseKey(Payload(m[Unsigned(1)])),
                                     salt_enc |-> Payload(m[Unsigned(2)]),
                                     salt_auth |-> Payload(m[Unsigned(3)]) ])
              /\ \A f \in F : (\A g \in F \ {f} : right(g)) =>
                    /\ f.key \notin DOMAIN m =>
                          result[2] = Err(CTAP2_ERR_MISSING_PARAMETER)
                    /\ (f.key \in DOMAIN m /\ ~RightKind(m[f.key], f.kind)) =>
                          result[2] = Err(CTAP2_ERR_CBOR_UNEXPECTED_TYPE)
              /\ (\E g \in F : ~right(g)) =>
                    /\ IsErr(result[2])
                    /\ result[2] = Err(CTAP2_ERR_MISSING_PARAMETER) =>
                          \E f \in F : f.key \notin DOMAIN m
                    /\ result[2] = Err(CTAP2_ERR_CBOR_UNEXPECTED_TYPE) =>
                          \E f \in F : f.key \in DOMAIN m /\ ~RightKind(m[f.key], f.kind)
                    /\ result[2] \in {Err(CTAP2_ERR_MISSING_PARAMETER),
                                      Err(CTAP2_ERR_CBOR_UNEXPECTED_TYPE)}

\* The accessor has reported an input that lacks its salt authentication tag,
\* in extensions that came from the wire.
C15_Witness ==
    /\ op = "get_assertion_hmac_secret"
    /\ Kind(wire) = "Map"
    /\ HmacSecretEntry # None
    /\ Kind(HmacSecretEntry[2]) = "Map"
    /\ DOMAIN Payload(HmacSecretEntry[2]) = {Unsigned(1), Unsigned(2)}
    /\ result = Some(Err(CTAP2_ERR_MISSING_PARAMETER))

(***************************************************************************)
(* C16: has_make_credential_hmac_secret returns Ok(false) when there is no *)
(* "hmac-secret" entry, Ok(b) when the entry is the boolean b and          *)
(* CTAP2_ERR_CBOR_UNEXPECTED_TYPE when the entry is anything else, such as *)
(* the get-assertion input map; entries under other names have no effect.  *)
(***************************************************************************)
C16_HasMakeCredentialHmacSecret ==
    op = "has_make_credential_hmac_secret" =>
        result = CASE HmacSecretEntry = None -> Ok(FALSE)
                   [] HmacSecretEntry = Some(cbor_false) -> Ok(FALSE)
                   [] HmacSecretEntry = Some(cbor_true) -> Ok(TRUE)
                   [] OTHER -> Err(CTAP2_ERR_CBOR_UNEXPECTED_TYPE)

\* The flag has been asked of extensions whose "hmac-secret" entry is a
\* get-assertion input map, next to an entry under another name.
C16_Witness ==
    /\ op = "has_make_credential_hmac_secret"
    /\ Kind(wire) = "Map"
    /\ DOMAIN Payload(wire) = {TextString("hmac-secret"), TextString("the_answer")}
    /\ Kind(Payload(wire)[TextString("hmac-secret")]) = "Map"
    /\ result = Err(CTAP2_ERR_CBOR_UNEXPECTED_TYPE)

(***************************************************************************)
(* C17: Extensions decode is opaque and lossless.  Every map whose keys    *)
(* are text decodes, whatever its values are, to a mapping with exactly    *)
(* the names of the map, each bound to the node the map binds it to;       *)
(* encoding that mapping gives the map back, and decoding the encoding of  *)
(* an Extensions value gives the value back.                               *)
(***************************************************************************)
C17_ExtensionsLossless ==
    op = "Extensions::try_from" =>
        /\ (Kind(wire) = "Map" /\ \A k \in DOMAIN Payload(wire) : Kind(k) = "TextString") =>
              /\ IsOk(result)
              /\ DOMAIN result[2] = {Payload(k) : k \in DOMAIN Payload(wire)}
              /\ \A k \in DOMAIN Payload(wire) : result[2][Payload(k)] = Payload(wire)[k]
              /\ pc = "reencoded" => created_cbor = wire
        /\ value[1] = "Extensions" => result = Ok(value[2])

\* A map with a flag and the payload of an unknown extension has been decoded
\* and encoded again.
C17_Witness ==
    /\ op = "Extensions::try_from"
    /\ pc = "reencoded"
    /\ wire = Map((TextString("hmac-secret") :> cbor_true)
                    @@ (TextString("the_answer") :> Unsigned(42)))
    /\ created_cbor = wire
    /\ result[2]["the_answer"] = Unsigned(42)

(***************************************************************************)
(* Encoders of the wire entities, of the attestation statement and of the  *)
(* hmac-secret output.                                                     *)
(***************************************************************************)
PublicKeyCredentialUserEntity_into(entity) ==
    cbor_map_options(<<
        <<TextString("id"), Some(ByteString(entity.user_id))>>,
        <<TextString("name"), IF IsSome(entity.user_name)
                              THEN Some(TextString(entity.user_name[2])) ELSE None>>,
        <<TextString("displayName"), IF IsSome(entity.user_display_name)
                                     THEN Some(TextString(entity.user_display_name[2]))
                                     ELSE None>>,
        <<TextString("icon"), IF IsSome(entity.user_icon)
                              THEN Some(TextString(entity.user_icon[2])) ELSE None>> >>)

PublicKeyCredentialParameter_into(cred_param) ==
    cbor_map_options(<<
        <<TextString("type"), Some(PublicKeyCredentialType_into(cred_param.cred_type))>>,
        <<TextString("alg"), Some(cbor_int(SignatureAlgorithm_as_i64(cred_param.alg)))>> >>)

\* The encoder leaving out a transports list that is empty.
PublicKeyCredentialDescriptor_into_nonempty(desc) ==
    cbor_map_options(<<
        <<TextString("type"), Some(PublicKeyCredentialType_into(desc.key_type))>>,
        <<TextString("id"), Some(ByteString(desc.key_id))>>,
        <<TextString("transports"),
          IF IsSome(desc.transports) /\ Len(desc.transports[2]) > 0
          THEN Some(Array([i \in DOMAIN desc.transports[2] |->
                             AuthenticatorTransport_into(desc.transports[2][i])]))
          ELSE None>> >>)

PublicKeyCredentialDescriptor_into(desc) ==
    cbor_map_options(<<
        <<TextString("type"), Some(PublicKeyCredentialType_into(desc.key_type))>>,
        <<TextString("id"), Some(ByteString(desc.key_id))>>,
        <<TextString("transports"),
          IF IsSome(desc.transports)
          THEN Some(Array([i \in DOMAIN desc.transports[2] |->
                             AuthenticatorTransport_into(desc.transports[2][i])]))
          ELSE None>> >>)

GetAssertionHmacSecretOutput_into(message) == ByteString(message)

GetAssertionHmacSecretOutput_try_from(cbor_value) == read_byte_string(cbor_value)

\* The encoder writing null for an optional field that is absent.
PackedAttestationStatement_into_placeholders(att_stmt) ==
    cbor_map_options(<<
        <<TextString("alg"), Some(cbor_int(att_stmt.alg))>>,
        <<TextString("sig"), Some(ByteString(att_stmt.sig))>>,
        <<TextString("x5c"),
          IF IsSome(att_stmt.x5c)
          THEN Some(Array([i \in DOMAIN att_stmt.x5c[2] |-> ByteString(att_stmt.x5c[2][i])]))
          ELSE Some(cbor_null)>>,
        <<TextString("ecdaaKeyId"), IF IsSome(att_stmt.ecdaa_key_id)
                                    THEN Some(ByteString(att_stmt.ecdaa_key_id[2]))
                                    ELSE Some(cbor_null)>> >>)

PackedAttestationStatement_into(att_stmt) ==
    cbor_map_options(<<
        <<TextString("alg"), Some(cbor_int(att_stmt.alg))>>,
        <<TextString("sig"), Some(ByteString(att_stmt.sig))>>,
        <<TextString("x5c"),
          IF IsSome(att_stmt.x5c)
          THEN Some(Array([i \in DOMAIN att_stmt.x5c[2] |-> ByteString(att_stmt.x5c[2][i])]))
          ELSE None>>,
        <<TextString("ecdaaKeyId"), IF IsSome(att_stmt.ecdaa_key_id)
                                    THEN Some(ByteString(att_stmt.ecdaa_key_id[2]))
                                    ELSE None>> >>)

\* The longest transports list of a descriptor.
MaxTransports == 2

RpEntities ==
    [ rp_id : {"example.com", ""},
      rp_name : Options({"Example", ""}),
      rp_icon : Options({"example.com/icon.png"}) ]

UserEntities ==
    [ user_id : {<<>>, <<29, 29>>},
      user_name : Options({"foo", ""}),
      user_display_name : Options({"bar"}),
      user_icon : Options({"example.com/foo/icon.png"}) ]

CredentialParameters ==
    [ cred_type : PublicKeyCredentialTypes, alg : SignatureAlgorithms ]

CredentialDescriptors ==
    [ key_type : PublicKeyCredentialTypes,
      key_id : {<<>>, Fill(NBYTES, 45)},
      transports : Options(UNION { [1..n -> AuthenticatorTransports] :
                                     n \in 0..MaxTransports }) ]

HmacSecretOutputs == {<<>>, <<192>>, Fill(NBYTES, 192)}

PackedAttestationStatements ==
    [ alg : {ECDSA_ES256_ALGORITHM, 0, 1, I64_MIN, I64_MAX},
      sig : {<<>>, <<85, 85, 85, 85>>},
      x5c : Options({<<>>, << <<92, 92, 92, 92>> >>, << <<92>>, <<>> >>}),
      ecdaa_key_id : Options({<<>>, <<236, 218, 29>>}) ]

\* A client puts a relying party into the map it sends: cbor_map! over the
\* fields that are set.  The layer itself has no encoder for this entity.
ClientSendsRpEntity ==
    Encode("PublicKeyCredentialRpEntity", "cbor_map!",
           cbor_map_options(<<
               <<TextString("id"), Some(TextString(value[2].rp_id))>>,
               <<TextString("name"), IF IsSome(value[2].rp_name)
                                     THEN Some(TextString(value[2].rp_name[2])) ELSE None>>,
               <<TextString("icon"), IF IsSome(value[2].rp_icon)
                                     THEN Some(TextString(value[2].rp_icon[2]))
                                     ELSE None>> >>))

EncodeUserEntity ==
    Encode("PublicKeyCredentialUserEntity", "PublicKeyCredentialUserEntity::into",
           PublicKeyCredentialUserEntity_into(value[2]))

EncodeCredentialParameter ==
    Encode("PublicKeyCredentialParameter", "PublicKeyCredentialParameter::into",
           PublicKeyCredentialParameter_into(value[2]))

EncodeCredentialDescriptor ==
    Encode("PublicKeyCredentialDescriptor", "PublicKeyCredentialDescriptor::into",
           PublicKeyCredentialDescriptor_into(value[2]))

EncodeHmacSecretOutput ==
    Encode("GetAssertionHmacSecretOutput", "GetAssertionHmacSecretOutput::into",
           GetAssertionHmacSecretOutput_into(value[2]))

DecodeHmacSecretOutput ==
    Apply("GetAssertionHmacSecretOutput::try_from",
          GetAssertionHmacSecretOutput_try_from(wire))

EncodePackedAttestationStatement ==
    Encode("PackedAttestationStatement", "PackedAttestationStatement::into",
           PackedAttestationStatement_into(value[2]))

\* The encoders of the layer for the entities and records held in memory.
EncodeEntity ==
    \/ EncodeUserEntity
    \/ EncodeCredentialParameter
    \/ EncodeCredentialDescriptor
    \/ EncodeHmacSecretOutput
    \/ EncodePackedAttestationStatement
    \/ EncodeCredentialSource

InitEntities ==
    \/ InitValue("PublicKeyCredentialRpEntity", RpEntities)
    \/ InitValue("PublicKeyCredentialUserEntity", UserEntities)
    \/ InitValue("PublicKeyCredentialParameter", CredentialParameters)
    \/ InitValue("PublicKeyCredentialDescriptor", CredentialDescriptors)
    \/ InitValue("GetAssertionHmacSecretOutput", HmacSecretOutputs)
    \/ InitValue("PackedAttestationStatement", PackedAttestationStatements)
    \/ InitValue("PublicKeyCredentialSource", CredentialSources)

NextEntities ==
    \/ ClientSendsRpEntity
    \/ EncodeEntity
    \/ DecodeRpEntity
    \/ DecodeUserEntity
    \/ DecodeCredentialParameter
    \/ DecodeCredentialDescriptor
    \/ DecodeHmacSecretOutput
    \/ DecodeCredentialSource

SpecEntities == InitEntities /\ [][NextEntities]_vars

\* The value in memory has been encoded and decoded by the decoder of its type.
DecodedAs(kind) ==
    /\ value[1] = kind
    /\ pc = "done"
    /\ op = CASE kind = "PublicKeyCredentialRpEntity" ->
                   "PublicKeyCredentialRpEntity::try_from"
              [] kind = "PublicKeyCredentialUserEntity" ->
                   "PublicKeyCredentialUserEntity::try_from"
              [] kind = "PublicKeyCredentialParameter" ->
                   "PublicKeyCredentialParameter::try_from"
              [] kind = "PublicKeyCredentialDescriptor" ->
                   "PublicKeyCredentialDescriptor::try_from"
              [] kind = "GetAssertionHmacSecretOutput" ->
                   "GetAssertionHmacSecretOutput::try_from"

(***************************************************************************)
(* C18: wire entity round trip.  For every UserEntity,                     *)
(* CredentialParameter, CredentialDescriptor and HmacSecretOutput value,   *)
(* with optional fields present or absent, a transports list of any        *)
(* length and type and algorithm of any variant, Unknown included,         *)
(* decoding the encoding of the value succeeds and returns the value.      *)
(***************************************************************************)
C18_EntityRoundTrip ==
    \A kind \in {"PublicKeyCredentialUserEntity", "PublicKeyCredentialParameter",
                 "PublicKeyCredentialDescriptor", "GetAssertionHmacSecretOutput"} :
        DecodedAs(kind) => result = Ok(value[2])

\* A descriptor of Unknown type with an empty transports list has come back.
C18_Witness ==
    /\ DecodedAs("PublicKeyCredentialDescriptor")
    /\ value[2].key_type = "Unknown"
    /\ value[2].transports = Some(<<>>)
    /\ result = Ok(value[2])

\* The relying party has id, name and icon all set.
RpFullySet ==
    /\ value[1] = "PublicKeyCredentialRpEntity"
    /\ IsSome(value[2].rp_name)
    /\ IsSome(value[2].rp_icon)

(***************************************************************************)
(* C19: RelyingPartyEntity round trip.  Every RelyingPartyEntity with id,  *)
(* name and icon all set, held in memory, is encoded by an encoder of this *)
(* layer, and decoding its encoding returns it.                            *)
(***************************************************************************)
C19_RpRoundTrip ==
    RpFullySet =>
        /\ pc = "value" => ENABLED EncodeEntity
        /\ DecodedAs("PublicKeyCredentialRpEntity") => result = Ok(value[2])

(***************************************************************************)
(* C19, amended: the layer only decodes a RelyingPartyEntity.  For every   *)
(* RelyingPartyEntity with id, name and icon all set, no encoder of the    *)
(* layer applies, and decoding the map that binds "id", "name" and "icon"  *)
(* to its three texts returns it.                                          *)
(***************************************************************************)
C19_RpDecodeOnly ==
    RpFullySet =>
        /\ pc = "value" => ~ENABLED EncodeEntity
        /\ pc # "value" =>
              wire = Map((TextString("id") :> TextString(value[2].rp_id))
                           @@ (TextString("name") :> TextString(value[2].rp_name[2]))
                           @@ (TextString("icon") :> TextString(value[2].rp_icon[2])))
        /\ DecodedAs("PublicKeyCredentialRpEntity") => result = Ok(value[2])

\* The relying party of the map {"id": "example.com", "name": "Example",
\* "icon": "example.com/icon.png"} has been decoded.
C19_Witness ==
    /\ RpFullySet
    /\ DecodedAs("PublicKeyCredentialRpEntity")
    /\ value[2].rp_id = "example.com"
    /\ value[2].rp_name = Some("Example")
    /\ result = Ok(value[2])

\* The keys an encoding has to have: those of the required fields and of the
\* optional fields that are set.
DocumentedKeys(kind, x) ==
    LET when(o, k) == IF IsSome(o) THEN {k} ELSE {} IN
    CASE kind = "PublicKeyCredentialUserEntity" ->
           {TextString("id")} \cup when(x.user_name, TextString("name"))
               \cup when(x.user_display_name, TextString("displayName"))
               \cup when(x.user_icon, TextString("icon"))
      [] kind = "PublicKeyCredentialDescriptor" ->
           {TextString("type"), TextString("id")}
               \cup when(x.transports, TextString("transports"))
      [] kind = "PackedAttestationStatement" ->
           {TextString("alg"), TextString("sig")} \cup when(x.x5c, TextString("x5c"))
               \cup when(x.ecdaa_key_id, TextString("ecdaaKeyId"))
      [] kind = "PublicKeyCredentialSource" ->
           {Unsigned(0), Unsigned(1), Unsigned(2), Unsigned(3)}
               \cup when(x.other_ui, Unsigned(4)) \cup when(x.cred_random, Unsigned(5))

(***************************************************************************)
(* C20: encoders emit exactly the documented key set.  The encoding of a   *)
(* UserEntity, CredentialDescriptor, PackedAttestationStatement or         *)
(* CredentialSource is a map with an entry for every required field and    *)
(* for every optional field that is set, with no entry, not even a null or *)
(* empty one, for an optional field that is absent, and with no other key. *)
(***************************************************************************)
C20_DocumentedKeySet ==
    \A kind \in {"PublicKeyCredentialUserEntity", "PublicKeyCredentialDescriptor",
                 "PackedAttestationStatement", "PublicKeyCredentialSource"} :
        (value[1] = kind /\ pc # "value") =>
            /\ Kind(wire) = "Map"
            /\ DOMAIN Payload(wire) = DocumentedKeys(kind, value[2])

\* An attestation statement without certificates and with an ECDAA key id has
\* been encoded under "alg", "sig" and "ecdaaKeyId".
C20_Witness ==
    /\ value[1] = "PackedAttestationStatement"
    /\ op = "PackedAttestationStatement::into"
    /\ value[2].x5c = None
    /\ IsSome(value[2].ecdaa_key_id)
    /\ DOMAIN Payload(wire) =
          {TextString("alg"), TextString("sig"), TextString("ecdaaKeyId")}

(***************************************************************************)
(* C22: credential source decode never reads a type from storage.  Every   *)
(* successful decode returns a record whose key_type is PublicKey,         *)
(* whatever the key_type of the encoded record and whatever the stored map *)
(* holds, and the encoder writes no tag for key_type: its map has the tags *)
(* of the other fields only and is the same for both types.                *)
(***************************************************************************)
C22_TypeNeverStored ==
    /\ (op = "PublicKeyCredentialSource::try_from" /\ IsOk(result)) =>
          result[2].key_type = "PublicKey"
    /\ op = "PublicKeyCredentialSource::into" =>
          /\ DOMAIN Payload(wire) \subseteq SourceTags
          /\ \A t \in PublicKeyCredentialTypes :
                wire = PublicKeyCredentialSource_into([value[2] EXCEPT !.key_type = t])
          /\ \A k \in DOMAIN Payload(wire) :
                Payload(wire)[k] \notin {PublicKeyCredentialType_into(t) :
                                           t \in PublicKeyCredentialTypes}

\* A record of type Unknown, stored with one more entry under tag 6, has been
\* decoded as a record of type PublicKey.
C22_Witness ==
    /\ DecodedInjected
    /\ value[2].key_type = "Unknown"
    /\ Unsigned(6) \in DOMAIN Payload(wire)
    /\ IsOk(result)
    /\ result[2].key_type = "PublicKey"

(***************************************************************************)
(* C24: Extensions decode rejects any key that is not text.  A map with at *)
(* least one key that is not a text string fails with                      *)
(* CTAP2_ERR_CBOR_UNEXPECTED_TYPE and gives no mapping, not even for the   *)
(* entries of the map that have text keys; an input that is not a map      *)
(* fails with CTAP2_ERR_CBOR_UNEXPECTED_TYPE as well.                      *)
(***************************************************************************)
C24_ExtensionsTextKeysOnly ==
    op = "Extensions::try_from" =>
        /\ Kind(wire) # "Map" => result = Err(CTAP2_ERR_CBOR_UNEXPECTED_TYPE)
        /\ (Kind(wire) = "Map" /\ \E k \in DOMAIN Payload(wire) : Kind(k) # "TextString") =>
              /\ result = Err(CTAP2_ERR_CBOR_UNEXPECTED_TYPE)
              /\ pc = "done"

\* A map with the "hmac-secret" flag and an entry under the number 1 has been
\* refused.
C24_Witness ==
    /\ op = "Extensions::try_from"
    /\ Kind(wire) = "Map"
    /\ DOMAIN Payload(wire) = {TextString("hmac-secret"), Unsigned(1)}
    /\ result = Err(CTAP2_ERR_CBOR_UNEXPECTED_TYPE)

(***************************************************************************)
(* Key-agreement maps with one more entry, under a label the decoder does  *)
(* not know.                                                               *)
(***************************************************************************)
OtherLabels == {Unsigned(4), Negative(0 - 4), TextString("kty")}

CoseKeysWithOtherLabel ==
    { CoseKey((k :> Unsigned(2)) @@ c[2]) : c \in CoseKeys, k \in OtherLabels }

InitCoseLabels == InitWire(CoseKeys \cup CoseKeysWithOtherLabel)

NextCoseLabels == DecodeCoseKey

SpecCoseLabels == InitCoseLabels /\ [][NextCoseLabels]_vars

(***************************************************************************)
(* C23: key-agreement key decode checks the labels in the order 1 (key     *)
(* type), 3 (algorithm), -1 (curve), -2 (x), -3 (y) and returns the error  *)
(* of the first check that fails: CTAP2_ERR_MISSING_PARAMETER for an       *)
(* absent label, CTAP2_ERR_CBOR_UNEXPECTED_TYPE for a label of the wrong   *)
(* kind (for 1, 3 and -1 anything but an integer of the signed range, for  *)
(* -2 and -3 anything but a byte string), CTAP2_ERR_UNSUPPORTED_ALGORITHM  *)
(* for a value that is not accepted and CTAP1_ERR_INVALID_PARAMETER for a  *)
(* wrong length.  A key type other than 2 is therefore refused as          *)
(* unsupported whatever the later labels hold, and entries under other     *)
(* labels have no effect.                                                  *)
(***************************************************************************)
C23_CoseCheckOrder ==
    op = "PubKey::try_from" =>
        LET m == Payload(wire)
            absent(l) == cbor_int(l) \notin DOMAIN m
            notInteger(l) == ~IsInteger(m[cbor_int(l)])
            notBytes(l) == Kind(m[cbor_int(l)]) # "ByteString"
            number(l) == Payload(m[cbor_int(l)])
        IN
        IF absent(1) THEN result = Err(CTAP2_ERR_MISSING_PARAMETER)
        ELSE IF notInteger(1) THEN result = Err(CTAP2_ERR_CBOR_UNEXPECTED_TYPE)
        ELSE IF number(1) # 2 THEN result = Err(CTAP2_ERR_UNSUPPORTED_ALGORITHM)
        ELSE IF absent(3) THEN result = Err(CTAP2_ERR_MISSING_PARAMETER)
        ELSE IF notInteger(3) THEN result = Err(CTAP2_ERR_CBOR_UNEXPECTED_TYPE)
        ELSE IF number(3) \notin {0 - 25, 0 - 7}
             THEN result = Err(CTAP2_ERR_UNSUPPORTED_ALGORITHM)
        ELSE IF absent(0 - 1) THEN result = Err(CTAP2_ERR_MISSING_PARAMETER)
        ELSE IF notInteger(0 - 1) THEN result = Err(CTAP2_ERR_CBOR_UNEXPECTED_TYPE)
        ELSE IF number(0 - 1) # 1 THEN result = Err(CTAP2_ERR_UNSUPPORTED_ALGORITHM)
        ELSE IF absent(0 - 2) THEN result = Err(CTAP2_ERR_MISSING_PARAMETER)
        ELSE IF notBytes(0 - 2) THEN result = Err(CTAP2_ERR_CBOR_UNEXPECTED_TYPE)
        ELSE IF Len(number(0 - 2)) # 32 THEN result = Err(CTAP1_ERR_INVALID_PARAMETER)
        ELSE IF absent(0 - 3) THEN result = Err(CTAP2_ERR_MISSING_PARAMETER)
        ELSE IF notBytes(0 - 3) THEN result = Err(CTAP2_ERR_CBOR_UNEXPECTED_TYPE)
        ELSE IF Len(number(0 - 3)) # 32 THEN result = Err(CTAP1_ERR_INVALID_PARAMETER)
        ELSE IsOk(result) \/ result = Err(CTAP1_ERR_INVALID_PARAMETER)

\* A map with key type 3, no curve, an algorithm that is not a number and an
\* entry under another label has been refused for its key type.
C23_Witness ==
    /\ op = "PubKey::try_from"
    /\ HasInteger(Payload(wire), 1, 3)
    /\ Get(Payload(wire), cbor_int(3)) = Some(cbor_true)
    /\ cbor_int(0 - 1) \notin DOMAIN Payload(wire)
    /\ TextString("kty") \in DOMAIN Payload(wire)
    /\ result = Err(CTAP2_ERR_UNSUPPORTED_ALGORITHM)

(***************************************************************************)
(* The whole layer: every decoder and accessor, on every tree of the       *)
(* component specifications.  A key-agreement map is of type CoseKey and   *)
(* goes to its own decoder only; the other decoders take cbor::Value.      *)
(***************************************************************************)
ExtractByteString == Apply("extract_byte_string", extract_byte_string(wire))

ExtractTextString == Apply("extract_text_string", extract_text_string(wire))

ExtractMap == Apply("extract_map", extract_map(wire))

\* A decoder looks up a required key of a map.
OkOrMissing ==
    /\ Kind(wire) = "Map"
    /\ \E key \in {TextString("id"), Unsigned(0)} :
          Apply("ok_or_missing", ok_or_missing(Get(Payload(wire), key)))

InitLayer ==
    InitWire(EnumNodes \cup OptionsNodes \cup EntityNodes \cup StoredNodes
                 \cup ExtensionNodes \cup CoseKeys)

NextLayer ==
    \/ /\ Kind(wire) = "CoseKey"
       /\ DecodeCoseKey
    \/ /\ Kind(wire) # "CoseKey"
       /\ \/ ReadUnsigned
          \/ ReadInteger
          \/ ReadByteString
          \/ ExtractByteString
          \/ ReadTextString
          \/ ExtractTextString
          \/ ReadArray
          \/ ReadMap
          \/ ExtractMap
          \/ ReadBool
          \/ OkOrMissing
          \/ DecodeRpEntity
          \/ DecodeUserEntity
          \/ DecodeCredentialType
          \/ DecodeCredentialParameter
          \/ DecodeTransport
          \/ DecodeCredentialDescriptor
          \/ DecodeExtensions
          \/ DecodeHmacSecretInput
          \/ DecodeHmacSecretOutput
          \/ DecodeMakeCredentialOptions
          \/ DecodeGetAssertionOptions
          \/ DecodeSignatureAlgorithm
          \/ DecodeCredentialSource
          \/ DecodeClientPinSubCommand
    \/ HasMakeCredentialHmacSecret
    \/ GetAssertionHmacSecret

SpecLayer == InitLayer /\ [][NextLayer]_vars

\* The six status codes of the layer.
StatusCodes ==
    { CTAP2_ERR_MISSING_PARAMETER, CTAP2_ERR_CBOR_UNEXPECTED_TYPE, CTAP2_ERR_INVALID_CBOR,
      CTAP2_ERR_INVALID_OPTION, CTAP2_ERR_UNSUPPORTED_ALGORITHM,
      CTAP1_ERR_INVALID_PARAMETER }

IsBytes(b) == b \in Seq(0..255)

IsOptionalText(o) == o = None \/ (o[1] = "Some" /\ o[2] \in STRING)

IsOptionalBytes(o) == o = None \/ (o[1] = "Some" /\ IsBytes(o[2]))

\* v is a complete value of the type the operation returns: every field is
\* there, and holds a value of its type.
FullyConstructed(name, v) ==
    CASE name = "read_unsigned" -> v \in 0..U64_MAX
      [] name = "read_integer" -> v \in I64_MIN..I64_MAX
      [] name \in {"read_byte_string", "extract_byte_string",
                   "GetAssertionHmacSecretOutput::try_from"} -> IsBytes(v)
      [] name \in {"read_text_string", "extract_text_string"} -> v \in STRING
      [] name = "read_array" -> DOMAIN v = 1..Len(v)
      [] name \in {"read_map", "extract_map"} -> v = Payload(wire)
      [] name \in {"read_bool", "has_make_credential_hmac_secret"} -> v \in BOOLEAN
      [] name = "ok_or_missing" -> \E k \in DOMAIN Payload(wire) : v = Payload(wire)[k]
      [] name = "PublicKeyCredentialRpEntity::try_from" ->
           /\ DOMAIN v = {"rp_id", "rp_name", "rp_icon"}
           /\ v.rp_id \in STRING
           /\ IsOptionalText(v.rp_name)
           /\ IsOptionalText(v.rp_icon)
      [] name = "PublicKeyCredentialUserEntity::try_from" ->
           /\ DOMAIN v = {"user_id", "user_name", "user_display_name", "user_icon"}
           /\ IsBytes(v.user_id)
           /\ IsOptionalText(v.user_name)
           /\ IsOptionalText(v.user_display_name)
           /\ IsOptionalText(v.user_icon)
      [] name = "PublicKeyCredentialType::try_from" -> v \in PublicKeyCredentialTypes
      [] name = "SignatureAlgorithm::try_from" -> v \in SignatureAlgorithms
      [] name = "AuthenticatorTransport::try_from" -> v \in AuthenticatorTransports
      [] name = "ClientPinSubCommand::try_from" -> v \in ClientPinSubCommands
      [] name = "PublicKeyCredentialParameter::try_from" ->
           /\ DOMAIN v = {"cred_type", "alg"}
           /\ v.cred_type \in PublicKeyCredentialTypes
           /\ v.alg \in SignatureAlgorithms
      [] name = "PublicKeyCredentialDescriptor::try_from" ->
           /\ DOMAIN v = {"key_type", "key_id", "transports"}
           /\ v.key_type \in PublicKeyCredentialTypes
           /\ IsBytes(v.key_id)
           /\ \/ v.transports = None
              \/ /\ v.transports[1] = "Some"
                 /\ v.transports[2] \in Seq(AuthenticatorTransports)
      [] name = "Extensions::try_from" -> \A key \in DOMAIN v : key \in STRING
      [] name = "GetAssertionHmacSecretInput::try_from" ->
           /\ DOMAIN v = {"key_agreement", "salt_enc", "salt_auth"}
           /\ v.key_agreement[1] = "CoseKey"
           /\ IsBytes(v.salt_enc)
           /\ IsBytes(v.salt_auth)
      [] name = "MakeCredentialOptions" ->
           DOMAIN v = {"rk", "uv"} /\ v.rk \in BOOLEAN /\ v.uv \in BOOLEAN
      [] name = "GetAssertionOptions" ->
           DOMAIN v = {"up", "uv"} /\ v.up \in BOOLEAN /\ v.uv \in BOOLEAN
      [] name = "PublicKeyCredentialSource::try_from" ->
           /\ DOMAIN v = {"key_type", "credential_id", "private_key", "rp_id",
                          "user_handle", "other_ui", "cred_random"}
           /\ v.key_type \in PublicKeyCredentialTypes
           /\ IsBytes(v.credential_id)
           /\ v.private_key[1] = "SecKey"
           /\ IsBytes(v.private_key[2]) /\ Len(v.private_key[2]) = NBYTES
           /\ v.rp_id \in STRING
           /\ IsBytes(v.user_handle)
           /\ IsOptionalText(v.other_ui)
           /\ IsOptionalBytes(v.cred_random)
      [] name = "PubKey::try_from" ->
           v[1] = "PubKey" /\ <<v[2], v[3]>> \in P256Points
      [] OTHER -> FALSE

\* The outcome is a complete value or one of the six status codes.
ClosedOutcome(name, r) ==
    \/ r[1] = "Err" /\ r[2] \in StatusCodes
    \/ r[1] = "Ok" /\ FullyConstructed(name, r[2])

(***************************************************************************)
(* C21: closed error vocabulary.  For every decoder and accessor of the    *)
(* layer and every input tree, the outcome is either a fully constructed   *)
(* value or exactly one of the six status codes MISSING_PARAMETER,         *)
(* CBOR_UNEXPECTED_TYPE, INVALID_CBOR, INVALID_OPTION,                     *)
(* UNSUPPORTED_ALGORITHM and INVALID_PARAMETER; no other error code and no *)
(* partially populated entity is returned.                                 *)
(***************************************************************************)
C21_ClosedErrorVocabulary ==
    pc \in {"done", "accessed"} =>
        IF op = "get_assertion_hmac_secret"
        THEN \/ result = None
             \/ /\ result[1] = "Some"
                /\ ClosedOutcome("GetAssertionHmacSecretInput::try_from", result[2])
        ELSE ClosedOutcome(op, result)

\* A descriptor with its type and id in order and a transport that is not one
\* of the four has been refused as a whole.
C21_Witness ==
    /\ op = "PublicKeyCredentialDescriptor::try_from"
    /\ Kind(wire) = "Map"
    /\ DOMAIN Payload(wire) =
          {TextString("type"), TextString("id"), TextString("transports")}
    /\ Kind(Payload(wire)[TextString("type")]) = "TextString"
    /\ Kind(Payload(wire)[TextString("id")]) = "ByteString"
    /\ Kind(Payload(wire)[TextString("transports")]) = "Array"
    /\ result = Err(CTAP2_ERR_CBOR_UNEXPECTED_TYPE)

====
